---- MODULE Spec2Model ----
(***************************************************************************)
(* Model of the real-time call pipeline of ai_call_backend:                *)
(*   RoomManager (src/run.sh), BedrockScamDetectionService (role-aware     *)
(*   variant, src/services/bedrockscamdetectionservice.js 386-800),        *)
(*   TranscriptionService (src/services/transcriptionService.js),          *)
(*   TranslationService, TranscribeTranslatePipeline (src/unnamed/part_001)*)
(*   and the socket handlers of src/index.js.                              *)
(***************************************************************************)
EXTENDS Integers, Sequences, FiniteSets, TLC

VARIABLES
    roomManager,   \* RoomManager: [rooms, userRooms], both JS Maps of Sets
    members,       \* history: the <<room, user>> pairs joined and not yet left
    pool,          \* the TranscriptionPoolManager, or NullObj when none was built
    drain,         \* where the pool's cleanupAll stands, and the stops it has called
    bedrock,       \* socket id -> its pipeline's BedrockScamDetectionService, or NullObj
    flows,         \* utterances in flight: awaiting the translation or the analysis
    capCalls,      \* history: requests sent to the analysis capability
    added,         \* history: every message given to addToConversation, in order
    regs,          \* history: number of registerSpeaker calls
    session,       \* socket id -> its pipeline's TranscriptionService, or NullObj
    now,           \* Date.now()
    ticks,         \* history: number of clock steps
    events,        \* history: number of result events the capability emitted
    sinkLog,       \* history: the <<socket id, text>> given to onTranscript, in order
    written,       \* history: number of chunks written to an audio stream
    totalReconnects, \* history: reconnection attempts made since start()
    connected,     \* the sockets connected to the server
    ioRooms,       \* socket.io rooms: the <<room, socket>> pairs joined
    roomRoles,     \* Map room -> object { socket id: role }, in insertion order
    pipelines,     \* the keys of the Dispatcher's Map socket id -> pipeline
    pipe,          \* socket id -> the pipeline created by its join, or NullObj
    handlers,      \* socket id -> where its join-room and disconnect handlers stand
    delivered,     \* history: the events delivered to sockets
    last           \* the last operation performed and what it returned

----------------------------------------------------------------------------
(* Identifiers                                                             *)

SocketIds == {"p1", "p2", "p3"}
RoomIds   == {"r1", "r2"}

\* A JS Map is a function whose domain is the set of keys present.
EmptyMap == [k \in {} |-> {}]

MapSet(m, k, v) == [x \in (DOMAIN m) \cup {k} |-> IF x = k THEN v ELSE m[x]]

MapDelete(m, k) == [x \in (DOMAIN m) \ {k} |-> m[x]]

NoOp == [op |-> "none"]

\* JS null / undefined where a string is expected, and the null object
Null      == "null"
Undefined == "undefined"
NullObj   == [null |-> TRUE]

----------------------------------------------------------------------------
(* RoomManager  (src/run.sh 17-92)                                         *)

RoomManagerNew == [rooms |-> EmptyMap, userRooms |-> EmptyMap]

\* A plausible slip: the reverse index is not updated on join.
AddUser_NoReverse(rm, roomId, userId) ==
    LET r1 == IF roomId \in DOMAIN rm.rooms THEN rm.rooms
              ELSE MapSet(rm.rooms, roomId, {})
    IN  [rm EXCEPT !.rooms = MapSet(r1, roomId, r1[roomId] \cup {userId})]

AddUser(rm, roomId, userId) ==
    LET r1 == IF roomId \in DOMAIN rm.rooms THEN rm.rooms
              ELSE MapSet(rm.rooms, roomId, {})
        r2 == MapSet(r1, roomId, r1[roomId] \cup {userId})
        u1 == IF userId \in DOMAIN rm.userRooms THEN rm.userRooms
              ELSE MapSet(rm.userRooms, userId, {})
        u2 == MapSet(u1, userId, u1[userId] \cup {roomId})
    IN  [rooms |-> r2, userRooms |-> u2]

\* A plausible slip: the emptied room is kept in the map.
RemoveUser_KeepEmpty(rm, roomId, userId) ==
    LET r2 == IF roomId \in DOMAIN rm.rooms
              THEN MapSet(rm.rooms, roomId, rm.rooms[roomId] \ {userId})
              ELSE rm.rooms
        u2 == IF userId \in DOMAIN rm.userRooms
              THEN LET s == rm.userRooms[userId] \ {roomId}
                   IN  IF s = {} THEN MapDelete(rm.userRooms, userId)
                       ELSE MapSet(rm.userRooms, userId, s)
              ELSE rm.userRooms
    IN  [rooms |-> r2, userRooms |-> u2]

RemoveUser(rm, roomId, userId) ==
    LET r2 == IF roomId \in DOMAIN rm.rooms
              THEN LET s == rm.rooms[roomId] \ {userId}
                   IN  IF s = {} THEN MapDelete(rm.rooms, roomId)
                       ELSE MapSet(rm.rooms, roomId, s)
              ELSE rm.rooms
        u2 == IF userId \in DOMAIN rm.userRooms
              THEN LET s == rm.userRooms[userId] \ {roomId}
                   IN  IF s = {} THEN MapDelete(rm.userRooms, userId)
                       ELSE MapSet(rm.userRooms, userId, s)
              ELSE rm.userRooms
    IN  [rooms |-> r2, userRooms |-> u2]

GetUsers(rm, roomId) ==
    IF roomId \in DOMAIN rm.rooms THEN rm.rooms[roomId] ELSE {}

GetUserRooms(rm, userId) ==
    IF userId \in DOMAIN rm.userRooms THEN rm.userRooms[userId] ELSE {}

----------------------------------------------------------------------------
(* BedrockScamDetectionService, role-aware variant                         *)
(* (src/services/bedrockscamdetectionservice.js 386-800)                   *)

Roles == {"user", "caller"}

maxHistoryLength == 20

BedrockNew(userId, userRole) ==
    [ userId              |-> userId,
      userRole            |-> userRole,
      client              |-> Null,
      isActive            |-> FALSE,
      conversationHistory |-> <<>>,
      analysisCount       |-> 0,
      speakers            |-> EmptyMap,
      stats |-> [ totalAnalyses          |-> 0,
                  highRiskDetections     |-> 0,
                  mediumRiskDetections   |-> 0,
                  lowRiskDetections      |-> 0,
                  averageRiskScore       |-> [nan |-> FALSE, num |-> 0, den |-> 1],
                  lastAnalysis           |-> NullObj,
                  callerMessagesAnalyzed |-> 0,
                  userMessagesLogged     |-> 0 ] ]

BedrockStartSvc(svc) == [svc EXCEPT !.client = "client", !.isActive = TRUE]

BedrockStopSvc(svc) == [svc EXCEPT !.client = Null, !.isActive = FALSE]

RegisterSpeaker(svc, socketId, role) ==
    [svc EXCEPT !.speakers = MapSet(svc.speakers, socketId, role)]

\* speakers.get(socketId) || "unknown"
GetSpeakerRole(svc, socketId) ==
    IF socketId \in DOMAIN svc.speakers THEN svc.speakers[socketId] ELSE "unknown"

\* conversationHistory.slice(-n)
SliceLast(seq, n) ==
    IF Len(seq) <= n THEN seq ELSE SubSeq(seq, Len(seq) - n + 1, Len(seq))

\* A plausible slip: the window keeps its first entries and drops the new one.
TrimHistory_KeepOldest(history) ==
    IF Len(history) > maxHistoryLength
    THEN SubSeq(history, 1, maxHistoryLength)
    ELSE history

TrimHistory(history) ==
    IF Len(history) > maxHistoryLength
    THEN SliceLast(history, maxHistoryLength)
    ELSE history

Message(svc, originalText, translatedText, speakerId) ==
    [ speakerId      |-> speakerId,
      role           |-> GetSpeakerRole(svc, speakerId),
      originalText   |-> originalText,
      translatedText |-> translatedText ]

AddToConversation(svc, originalText, translatedText, speakerId) ==
    LET msg  == Message(svc, originalText, translatedText, speakerId)
        role == msg.role
    IN  [svc EXCEPT
            !.conversationHistory = TrimHistory(Append(svc.conversationHistory, msg)),
            !.stats.callerMessagesAnalyzed = IF role = "caller" THEN @ + 1 ELSE @,
            !.stats.userMessagesLogged     = IF role = "user" THEN @ + 1 ELSE @]

ClearHistory(svc) == [svc EXCEPT !.conversationHistory = <<>>]

\* A plausible slip: every speaker that is not the protected user is analyzed.
QualifiesForAnalysis_NotUser(speakerRole) == speakerRole # "user"

\* analyzeConversation analyzes only when the speaker's role is "caller".
QualifiesForAnalysis(speakerRole) == speakerRole = "caller"

\* The part of analyzeConversation before the capability is awaited:
\* "null" when the call returns null at once, "send" when a request is sent.
AnalyzeEntry(svc, speakerId) ==
    IF ~svc.isActive THEN "null"
    ELSE IF ~QualifiesForAnalysis(GetSpeakerRole(svc, speakerId)) THEN "null"
    ELSE "send"

AnalyzeBegin(svc) == [svc EXCEPT !.analysisCount = @ + 1]

\* What the analysis capability may answer.  A JSON value is a number or
\* anything else the model may put there; Missing is an absent field.
Num(n)     == [t |-> "num", v |-> n]
NonNumeric == [t |-> "str", v |-> 0]
Missing    == [t |-> "missing", v |-> 0]

Responses ==
    { [kind |-> "error",  scamProbability |-> Missing, riskLevel |-> Undefined],
      [kind |-> "nojson", scamProbability |-> Missing, riskLevel |-> Undefined],
      [kind |-> "badjson", scamProbability |-> Missing, riskLevel |-> Undefined],
      [kind |-> "json", scamProbability |-> Num(0 - 10), riskLevel |-> "LOW"],
      [kind |-> "json", scamProbability |-> Num(45),  riskLevel |-> Undefined],
      [kind |-> "json", scamProbability |-> Num(150), riskLevel |-> "HIGH"],
      [kind |-> "json", scamProbability |-> Num(20),  riskLevel |-> "HIGH"],
      [kind |-> "json", scamProbability |-> Missing,  riskLevel |-> "MEDIUM"],
      [kind |-> "json", scamProbability |-> NonNumeric, riskLevel |-> "CRITICAL"] }

NaN == [nan |-> TRUE, v |-> 0]

Min2(a, b) == IF a < b THEN a ELSE b
Max2(a, b) == IF a > b THEN a ELSE b

\* Math.min(100, Math.max(0, x || 0)): a number is clamped, an absent value
\* or 0 gives 0, a non-numeric value gives NaN.
ClampScore(x) ==
    IF x.t = "num" THEN [nan |-> FALSE, v |-> Min2(100, Max2(0, x.v))]
    ELSE IF x.t = "missing" THEN [nan |-> FALSE, v |-> 0]
    ELSE NaN

\* The response parsed (lines 609-630) and validated (lines 633-645).
ValidatedResult(svc, resp, text) ==
    LET parsed == IF resp.kind = "json" THEN resp
                  ELSE [kind |-> "json", scamProbability |-> Num(0), riskLevel |-> "LOW"]
    IN  [ scamProbability |-> ClampScore(parsed.scamProbability),
          riskLevel       |-> IF parsed.riskLevel = Undefined THEN "LOW"
                              ELSE parsed.riskLevel,
          concerns        |-> IF resp.kind = "json" THEN "concerns" ELSE "none",
          analysisCount   |-> svc.analysisCount,
          callerMessage   |-> text ]

\* (avg * (n - 1) + x) / n on exact fractions
NextAverage(avg, n, x) ==
    IF avg.nan \/ x.nan THEN [nan |-> TRUE, num |-> 0, den |-> 1]
    ELSE [nan |-> FALSE, num |-> avg.num * (n - 1) + x.v * avg.den, den |-> avg.den * n]

UpdateStats(stats, result) ==
    LET n == stats.totalAnalyses + 1
    IN  [stats EXCEPT
            !.totalAnalyses        = n,
            !.highRiskDetections   = IF result.riskLevel = "HIGH" THEN @ + 1 ELSE @,
            !.mediumRiskDetections = IF result.riskLevel = "MEDIUM" THEN @ + 1 ELSE @,
            !.lowRiskDetections    = IF result.riskLevel \notin {"HIGH", "MEDIUM"}
                                     THEN @ + 1 ELSE @,
            !.averageRiskScore     = NextAverage(@, n, result.scamProbability)]

\* A plausible slip: a failed request switches the service off.
AnalyzeFinish_ErrorStops(svc, resp, text) ==
    IF resp.kind = "error" THEN [svc EXCEPT !.isActive = FALSE]
    ELSE LET result == ValidatedResult(svc, resp, text)
         IN  [svc EXCEPT !.stats = [UpdateStats(@, result) EXCEPT !.lastAnalysis = result]]

\* The part of analyzeConversation after the capability has answered.
AnalyzeFinish(svc, resp, text) ==
    IF resp.kind = "error" THEN svc
    ELSE LET result == ValidatedResult(svc, resp, text)
         IN  [svc EXCEPT !.stats = [UpdateStats(@, result) EXCEPT !.lastAnalysis = result]]

\* A plausible slip: the parse error is left to the outer catch.
AnalyzeResult_ParseErrorNull(svc, resp, text) ==
    IF resp.kind # "json" THEN NullObj ELSE ValidatedResult(svc, resp, text)

\* What analyzeConversation returns once the capability has answered.
AnalyzeResult(svc, resp, text) ==
    IF resp.kind = "error" THEN NullObj ELSE ValidatedResult(svc, resp, text)

\* TranslateText's result for a text (the translation capability's answer).
Translated(text) == <<"en", text>>

----------------------------------------------------------------------------
(* TranscriptionService  (src/services/transcriptionService.js)           *)

maxReconnectAttempts == 3
maxInactivityTime    == 30000
maxStreamDuration    == 14400000

\* A timer fires when it is due or up to Jitter milliseconds later.
Jitter == 1

NoTimer == [armed |-> FALSE, due |-> 0]

\* pc is where the flow that called start() stands: "new" (not called yet),
\* "handshake" (awaiting client.send), "streaming" (in the for-await loop),
\* "backoff" (awaiting the delay of handleStreamError), "returned", "threw".
\* stopping counts the stop() calls suspended in their 100 ms wait, waiting
\* the sendAudio calls suspended on backpressure.
SessionNew ==
    [ transcribeClient    |-> Null,
      audioStream         |-> "none",
      streamGen           |-> 0,
      isActive            |-> FALSE,
      reconnectAttempts   |-> 0,
      streamStartTime     |-> 0,
      lastAudioTime       |-> 0,
      audioChunksReceived |-> 0,
      inactivityTimeout   |-> NoTimer,
      delay               |-> 0,
      pc                  |-> "new",
      stopping            |-> 0,
      waiting             |-> 0 ]

\* clearTimeout + setTimeout(..., maxInactivityTime)
StartInactivityMonitor(s, t) ==
    [s EXCEPT !.inactivityTimeout = [armed |-> TRUE, due |-> t + maxInactivityTime]]

\* initializeStream has returned to start(), which arms the inactivity
\* monitor and resolves (lines 62-68): every await of the chain
\* initializeStream / handleTranscriptStream / handleStreamError is the last
\* statement of its caller, so the whole chain unwinds at once.
StartReturns(s, t) == [StartInactivityMonitor(s, t) EXCEPT !.pc = "returned"]

\* Math.min(1000 * Math.pow(2, reconnectAttempts), 5000)
BackoffDelay(attempts) == Min2(1000 * (2 ^ attempts), 5000)

\* A plausible slip: the limit is compared with > instead of >=.
RetryLimitReached_OffByOne(s) == s.reconnectAttempts > maxReconnectAttempts

RetryLimitReached(s) == s.reconnectAttempts >= maxReconnectAttempts

HandleStreamError(s, t) ==
    IF ~s.isActive \/ RetryLimitReached(s)
    THEN StartReturns([s EXCEPT !.isActive = FALSE], t)
    ELSE [s EXCEPT !.reconnectAttempts = @ + 1,
                   !.delay = BackoffDelay(s.reconnectAttempts + 1),
                   !.pc = "backoff"]

\* A plausible slip: initializeStream without its test of isActive.
InitializeStream_NoGuard(s, t) ==
    [s EXCEPT !.audioStream = "open", !.streamGen = @ + 1, !.pc = "handshake"]

\* initializeStream up to the await of client.send
InitializeStream(s, t) ==
    IF ~s.isActive THEN StartReturns(s, t)
    ELSE [s EXCEPT !.audioStream = "open", !.streamGen = @ + 1, !.pc = "handshake"]

\* start() with valid credentials, up to the await of client.send
StartSession(s, t) ==
    InitializeStream([s EXCEPT !.transcribeClient = "client",
                               !.isActive = TRUE,
                               !.reconnectAttempts = 0,
                               !.streamStartTime = t], t)

\* start() with credentials missing or invalid: it throws
StartSessionThrows(s) == [s EXCEPT !.isActive = FALSE, !.pc = "threw"]

\* client.send resolved: the stream is established
HandshakeSucceeded(s) == [s EXCEPT !.reconnectAttempts = 0, !.pc = "streaming"]

\* client.send rejected
HandshakeFailed(s, fatal, t) ==
    IF fatal THEN StartReturns([s EXCEPT !.isActive = FALSE], t)
    ELSE HandleStreamError(s, t)

\* The result stream ended or threw (lines 274-301)
StreamFailed(s, t) ==
    IF s.isActive THEN HandleStreamError(s, t) ELSE StartReturns(s, t)

\* A transcript is "words", "padded" (words with blanks around them), "blank"
\* (blanks only) or "empty"; id tells the transcripts apart.
Text(kind, id) == [kind |-> kind, id |-> id]

\* String.prototype.trim
Trim(text) ==
    IF text.kind = "padded" THEN Text("words", text.id)
    ELSE IF text.kind = "blank" THEN Text("empty", text.id)
    ELSE text

\* A plausible slip: the test of IsPartial is missing.
RECURSIVE SinkTexts_PartialsToo(_)
SinkTexts_PartialsToo(results) ==
    IF results = <<>> THEN <<>>
    ELSE LET r == Head(results)
         IN  (IF r[2].kind # "empty" /\ Trim(r[2]).kind # "empty"
              THEN <<Trim(r[2])>> ELSE <<>>)
             \o SinkTexts_PartialsToo(Tail(results))

\* A result event: the transcripts given to onTranscript, in order.  A result
\* is <<kind, text>> with kind "final" or "partial" (IsPartial).
RECURSIVE SinkTexts(_)
SinkTexts(results) ==
    IF results = <<>> THEN <<>>
    ELSE LET r == Head(results)
         IN  (IF r[1] = "final" /\ r[2].kind # "empty" /\ Trim(r[2]).kind # "empty"
              THEN <<Trim(r[2])>> ELSE <<>>)
             \o SinkTexts(Tail(results))

\* A plausible slip: the result loop without its test of isActive.
EventDelivered_Always(s) == TRUE

\* The loop breaks on an event that arrives when the service is not active.
EventDelivered(s) == s.isActive

\* A plausible slip: sendAudio only looks at the stream.
SendAudioRejected_StreamOnly(s) == s.audioStream \in {"none", "destroyed"}

SendAudioRejected(s) ==
    ~s.isActive \/ s.audioStream = "none" \/ s.audioStream = "destroyed"

\* sendAudio from the guard to the duration check
SendAudioAccept(s, t) ==
    StartInactivityMonitor([s EXCEPT !.lastAudioTime = t,
                                     !.audioChunksReceived = @ + 1], t)

DurationExceeded(s, t) == t - s.streamStartTime > maxStreamDuration

\* stop() up to its 100 ms wait, or to its end when there is no open stream
StopSession(s) ==
    LET s1 == [s EXCEPT !.isActive = FALSE, !.inactivityTimeout = NoTimer]
    IN  IF s1.audioStream \in {"open", "ended"}
        THEN [s1 EXCEPT !.audioStream = "ended", !.stopping = @ + 1]
        ELSE [s1 EXCEPT !.audioStream = "none", !.transcribeClient = Null]

\* stop() after its 100 ms wait
StopSessionResume(s) ==
    [s EXCEPT !.audioStream = "none", !.transcribeClient = Null, !.stopping = @ - 1]

\* lastAudioTime || streamStartTime
InactivityBase(s) == IF s.lastAudioTime # 0 THEN s.lastAudioTime ELSE s.streamStartTime

\* The inactivity timer's callback
TimerExpired(s, t) == t - InactivityBase(s) > maxInactivityTime

\* Starting, Streaming or Reconnecting with isActive cleared is Stopped.
Stopped(s) == s.pc # "new" /\ ~s.isActive

\* cleanupAll is not running
NoDrain == [pc |-> "idle", pos |-> 0, live |-> <<>>, stopped |-> <<>>]

\* No TranscriptionPoolManager has been constructed.
NoPool == pool = NullObj /\ drain = NoDrain

\* The session variables when the sockets in `owners' have a service.
SessInit(owners) ==
    /\ session = [p \in SocketIds |-> IF p \in owners THEN SessionNew ELSE NullObj]
    /\ now = maxInactivityTime
    /\ ticks = 0
    /\ events = 0
    /\ sinkLog = <<>>
    /\ written = 0
    /\ totalReconnects = 0

\* The Dispatcher's variables when the sockets in `sockets' are connected
\* and none has joined a room.
DispInit(sockets) ==
    /\ connected = sockets
    /\ ioRooms = {}
    /\ roomRoles = EmptyMap
    /\ pipelines = {}
    /\ pipe = [p \in SocketIds |-> NullObj]
    /\ handlers = [p \in SocketIds |-> [join |-> "idle", disc |-> "none"]]
    /\ delivered = {}

----------------------------------------------------------------------------
(* The RoomManager on its own: any sequence of addUser / removeUser calls. *)

vars == <<roomManager, members, pool, drain, bedrock, flows, capCalls, added, regs,
          session, now, ticks, events, sinkLog, written, totalReconnects,
          connected, ioRooms, roomRoles, pipelines, pipe, handlers, delivered, last>>

\* The RoomManager, and the pool manager, which index.js never builds
poolVars == <<pool, drain>>

roomVars == <<roomManager, members, poolVars>>

bedrockVars == <<bedrock, flows, capCalls, added, regs>>

sessVars == <<session, now, ticks, events, sinkLog, written, totalReconnects>>

dispVars == <<connected, ioRooms, roomRoles, pipelines, pipe, handlers, delivered>>

\* What the operations of one component leave alone
exRooms   == <<bedrockVars, sessVars, dispVars>>
exBedrock == <<roomVars, sessVars, dispVars>>
exSession == <<roomVars, bedrockVars, dispVars>>


InitRooms ==
    /\ roomManager = RoomManagerNew
    /\ members = {}
    /\ NoPool
    /\ bedrock = [p \in SocketIds |-> NullObj]
    /\ flows = {}
    /\ capCalls = 0
    /\ added = <<>>
    /\ regs = 0
    /\ SessInit({})
    /\ DispInit({})
    /\ last = NoOp

RmAddUser ==
    \E r \in RoomIds, u \in SocketIds :
        /\ roomManager' = AddUser(roomManager, r, u)
        /\ members' = members \cup {<<r, u>>}
        /\ UNCHANGED poolVars
        /\ last' = [op |-> "addUser", room |-> r, user |-> u]
        /\ UNCHANGED exRooms

RmRemoveUser ==
    \E r \in RoomIds, u \in SocketIds :
        /\ roomManager' = RemoveUser(roomManager, r, u)
        /\ members' = members \ {<<r, u>>}
        /\ UNCHANGED poolVars
        /\ last' = [op |-> "removeUser", room |-> r, user |-> u]
        /\ UNCHANGED exRooms

NextRooms == RmAddUser \/ RmRemoveUser

SpecRooms == InitRooms /\ [][NextRooms]_vars

\* C3: for every participant p and room r, p is in membersOf(r) exactly
\* when r is in roomsOf(p), after any sequence of addUser / removeUser.
C3_MembershipConsistent ==
    \A r \in RoomIds, u \in SocketIds :
        (u \in GetUsers(roomManager, r)) <=> (r \in GetUserRooms(roomManager, u))

\* A user sits in two rooms, a leave has just removed another user from one
\* of them, and the two indexes agree on the remaining memberships.
C3_Witness ==
    /\ last.op = "removeUser"
    /\ \E u \in SocketIds : GetUserRooms(roomManager, u) = RoomIds
    /\ \E r \in RoomIds : Cardinality(GetUsers(roomManager, r)) = 1

\* C4: a room is stored exactly when it has members: no stored room has an
\* empty member set; the first join creates the room and the leave of the
\* last member deletes it.
C4_RoomPresentIffNonEmpty ==
    /\ \A r \in DOMAIN roomManager.rooms : roomManager.rooms[r] # {}
    /\ \A r \in RoomIds :
           (r \in DOMAIN roomManager.rooms) <=> (\E u \in SocketIds : <<r, u>> \in members)

\* The last member of a room has just left and the room is gone, while
\* another room is still stored.
C4_Witness ==
    /\ last.op = "removeUser"
    /\ last.room \notin DOMAIN roomManager.rooms
    /\ \E r \in RoomIds : r \in DOMAIN roomManager.rooms

----------------------------------------------------------------------------
(* One BedrockScamDetectionService on its own.                             *)

Owner == "p2"
Peer  == "p1"

MaxAdds == 22
MaxRegs == 1

SvcInit ==
    /\ roomManager = RoomManagerNew
    /\ members = {}
    /\ NoPool
    /\ \E role \in Roles :
          bedrock = [p \in SocketIds |-> IF p = Owner THEN BedrockNew(p, role) ELSE NullObj]
    /\ flows = {}
    /\ capCalls = 0
    /\ added = <<>>
    /\ regs = 0
    /\ SessInit({})
    /\ DispInit({})
    /\ last = NoOp

BdStart ==
    /\ ~bedrock[Owner].isActive
    /\ bedrock[Owner].client = Null
    /\ bedrock' = [bedrock EXCEPT ![Owner] = BedrockStartSvc(@)]
    /\ last' = [op |-> "bedrockStart"]
    /\ UNCHANGED <<exBedrock, flows, capCalls, added, regs>>

BdRegister ==
    \E sid \in {Owner, Peer}, role \in Roles :
        /\ bedrock' = [bedrock EXCEPT ![Owner] = RegisterSpeaker(@, sid, role)]
        /\ last' = [op |-> "registerSpeaker", speakerId |-> sid, role |-> role]
        /\ UNCHANGED <<exBedrock, flows, capCalls, added, regs>>

\* registerSpeaker, a bounded number of times
BdWindowRegister ==
    /\ regs < MaxRegs
    /\ regs' = regs + 1
    /\ \E sid \in SocketIds, role \in Roles :
          /\ bedrock' = [bedrock EXCEPT ![Owner] = RegisterSpeaker(@, sid, role)]
          /\ last' = [op |-> "registerSpeaker", speakerId |-> sid, role |-> role]
    /\ UNCHANGED <<exBedrock, flows, capCalls, added>>

\* addToConversation as the pipeline calls it: the speaker is the owner.
BdAdd(maxAdds) ==
    /\ Len(added) < maxAdds
    /\ LET k == Len(added) + 1
       IN  /\ bedrock' = [bedrock EXCEPT
                             ![Owner] = AddToConversation(@, k, Translated(k), Owner)]
           /\ added' = Append(added, Message(bedrock[Owner], k, Translated(k), Owner))
           /\ last' = [op |-> "addToConversation", n |-> k]
    /\ UNCHANGED <<exBedrock, flows, capCalls, regs>>

BdWindowAdd == BdAdd(MaxAdds)

NextWindow == BdStart \/ BdWindowRegister \/ BdWindowAdd

SpecWindow == SvcInit /\ [][NextWindow]_vars

\* C5: after any number of addToConversation calls the window holds at most
\* maxHistoryLength (20) entries, and they are exactly the most recent
\* min(k, 20) messages in insertion order.
C5_WindowIsLastN ==
    LET h == bedrock[Owner].conversationHistory
        k == Len(added)
    IN  /\ Len(h) <= maxHistoryLength
        /\ Len(h) = Min2(k, maxHistoryLength)
        /\ \A i \in 1..Len(h) : h[i] = added[k - Len(h) + i]

\* More messages than the window holds have been added, so the oldest have
\* been evicted, and the window holds messages recorded under two roles.
C5_Witness ==
    LET h == bedrock[Owner].conversationHistory
    IN  /\ Len(added) > maxHistoryLength
        /\ Len(h) = maxHistoryLength
        /\ h[1].originalText = Len(added) - maxHistoryLength + 1
        /\ h[1].role # h[Len(h)].role

----------------------------------------------------------------------------
(* The analysis gate: registerSpeaker, addToConversation and               *)
(* analyzeConversation called with any speaker id and text.                *)

MaxCtxAdds  == 1
MaxAnalyses == 1

Texts == {"hello", "send me your bank PIN now"}

Flow(owner, n, stage, original, translated) ==
    [owner |-> owner, n |-> n, stage |-> stage,
     original |-> original, translated |-> translated]

\* The answers used where the verdict's content does not matter.
GateResponses ==
    {r \in Responses : r.kind \in {"error", "nojson"} \/ r.scamProbability = Num(150)}

BdCtxAdd == BdAdd(MaxCtxAdds)

BdClear ==
    /\ bedrock[Owner].conversationHistory # <<>>
    /\ bedrock' = [bedrock EXCEPT ![Owner] = ClearHistory(@)]
    /\ last' = [op |-> "clearHistory"]
    /\ UNCHANGED <<exBedrock, flows, capCalls, added, regs>>

BdStop ==
    /\ bedrock[Owner].isActive
    /\ bedrock' = [bedrock EXCEPT ![Owner] = BedrockStopSvc(@)]
    /\ last' = [op |-> "bedrockStop"]
    /\ UNCHANGED <<exBedrock, flows, capCalls, added, regs>>

\* analyzeConversation(text, speakerId) up to its first await.
BdAnalyzeCall ==
    \E text \in Texts, sid \in SocketIds \cup {Undefined} :
        LET svc == bedrock[Owner]
        IN  IF AnalyzeEntry(svc, sid) = "null"
            THEN /\ last' = [op |-> "analyze", speakerId |-> sid, text |-> text,
                             result |-> "null"]
                 /\ UNCHANGED <<exBedrock, bedrockVars>>
            ELSE /\ svc.analysisCount < MaxAnalyses
                 /\ bedrock' = [bedrock EXCEPT ![Owner] = AnalyzeBegin(@)]
                 /\ capCalls' = capCalls + 1
                 /\ flows' = flows \cup
                        {Flow(Owner, svc.analysisCount + 1, "analyzing", text, text)}
                 /\ last' = [op |-> "analyze", speakerId |-> sid, text |-> text,
                             result |-> "pending"]
                 /\ UNCHANGED <<exBedrock, added, regs>>

\* The capability answers (or fails) and analyzeConversation returns.
AnalyzeRespond(responses) ==
    \E f \in flows, resp \in responses :
        /\ f.stage = "analyzing"
        /\ bedrock' = [bedrock EXCEPT ![Owner] = AnalyzeFinish(@, resp, f.translated)]
        /\ flows' = flows \ {f}
        /\ last' = [op |-> "analyzeDone", response |-> resp,
                    verdict |-> AnalyzeResult(bedrock[Owner], resp, f.translated)]
        /\ UNCHANGED <<exBedrock, capCalls, added, regs>>

BdAnalyzeRespond == AnalyzeRespond(GateResponses)

NextAnalysis ==
    \/ BdStart \/ BdRegister \/ BdCtxAdd \/ BdClear \/ BdStop
    \/ BdAnalyzeCall \/ BdAnalyzeRespond

SpecAnalysis == SvcInit /\ [][NextAnalysis]_vars

\* C6: analyzeConversation(text, speakerId) returns null whenever the
\* speaker's registered role is not "caller" (user, unknown, unregistered),
\* for every text, sends nothing to the capability and leaves the service's
\* counters and statistics as they were.
C6_NonCallerNotAnalyzed ==
    [][ (last'.op = "analyze"
         /\ GetSpeakerRole(bedrock[Owner], last'.speakerId) # "caller")
        => /\ last'.result = "null"
           /\ capCalls' = capCalls
           /\ flows' = flows
           /\ bedrock' = bedrock ]_vars

\* An active service that has already analyzed a caller's message has just
\* returned null for a registered user, the second text of Texts.
C6_Witness ==
    /\ last.op = "analyze"
    /\ last.result = "null"
    /\ last.speakerId \in DOMAIN bedrock[Owner].speakers
    /\ bedrock[Owner].speakers[last.speakerId] = "user"
    /\ last.text = "send me your bank PIN now"
    /\ bedrock[Owner].isActive
    /\ bedrock[Owner].stats.totalAnalyses > 0

----------------------------------------------------------------------------
(* One TranscriptionService on its own: start, the capability's answers,   *)
(* sendAudio, stop, the inactivity timer and the clock.                    *)

MaxStreams == 2
MaxEvents  == 1
MaxChunks  == 1
MaxTicks   == 2

SessionInit ==
    /\ roomManager = RoomManagerNew
    /\ members = {}
    /\ NoPool
    /\ bedrock = [p \in SocketIds |-> NullObj]
    /\ flows = {}
    /\ capCalls = 0
    /\ added = <<>>
    /\ regs = 0
    /\ SessInit({Owner})
    /\ DispInit({})
    /\ last = NoOp

SetSession(p, s) ==
    /\ session' = [session EXCEPT ![p] = s]
    /\ totalReconnects' = IF s.pc = "backoff" /\ session[p].pc # "backoff"
                          THEN totalReconnects + 1 ELSE totalReconnects

\* start(onTranscript)
SessStart(p) ==
    /\ session[p].pc = "new"
    /\ \E credentials \in {"valid", "invalid"} :
          /\ SetSession(p, IF credentials = "valid"
                           THEN StartSession(session[p], now)
                           ELSE StartSessionThrows(session[p]))
          /\ last' = [op |-> "start"]
    /\ UNCHANGED <<exSession, now, ticks, events, sinkLog, written>>

\* How the handshake may end: it succeeds, or fails with an error that
\* initializeStream treats as fatal or as recoverable.
Outcomes == {"ok", "fatal", "recoverable"}

\* client.send(StartStreamTranscriptionCommand) resolves or rejects
SessHandshake(p, outcomes) ==
    /\ session[p].pc = "handshake"
    /\ \E outcome \in outcomes :
          /\ SetSession(p, IF outcome = "ok" THEN HandshakeSucceeded(session[p])
                           ELSE HandshakeFailed(session[p], outcome = "fatal", now))
          /\ last' = [op |-> "handshake", outcome |-> outcome]
    /\ UNCHANGED <<exSession, now, ticks, events, sinkLog, written>>

\* The shapes of a result event: the results it carries
EventShapes ==
    { << <<"final", "words">> >>,
      << <<"partial", "words">> >>,
      << <<"final", "empty">> >>,
      << <<"final", "blank">> >>,
      << <<"partial", "words">>, <<"final", "padded">> >>,
      << <<"final", "words">>, <<"final", "words">> >> }

EventResults(shape, n) ==
    [i \in 1..Len(shape) |-> <<shape[i][1], Text(shape[i][2], <<n, i>>)>>]

\* What onTranscript is called with for the event `results'
Delivered(p, results) ==
    LET texts == SinkTexts(results)
    IN  [i \in 1..Len(texts) |-> <<p, texts[i]>>]

\* The result stream yields an event (lines 222-272); `seen' tells whether
\* last keeps the results the event carried.
SessEventUpTo(p, maxEvents, seen) ==
    /\ session[p].pc = "streaming"
    /\ events < maxEvents
    /\ events' = events + 1
    /\ \E shape \in EventShapes :
          LET results == EventResults(shape, events + 1)
          IN  IF EventDelivered(session[p])
              THEN /\ sinkLog' = sinkLog \o Delivered(p, results)
                   /\ UNCHANGED <<session, totalReconnects>>
                   /\ last' = [op |-> "event", results |-> IF seen THEN results ELSE <<>>]
              ELSE /\ SetSession(p, StreamFailed(session[p], now))
                   /\ UNCHANGED sinkLog
                   /\ last' = [op |-> "event", results |-> IF seen THEN results ELSE <<>>]
    /\ UNCHANGED <<exSession, now, ticks, written>>

SessEvent(p) == SessEventUpTo(p, MaxEvents, FALSE)

\* The result stream ends or throws (lines 274-301)
SessStreamFail(p) ==
    /\ session[p].pc = "streaming"
    /\ last' = [op |-> "streamFail"]
    /\ SetSession(p, StreamFailed(session[p], now))
    /\ UNCHANGED <<exSession, now, ticks, events, sinkLog, written>>

\* The backoff delay of handleStreamError has elapsed (lines 321-322)
SessBackoffDone(p, maxStreams) ==
    /\ session[p].pc = "backoff"
    /\ session[p].streamGen < maxStreams
    /\ SetSession(p, InitializeStream(session[p], now))
    /\ last' = [op |-> "backoffDone"]
    /\ UNCHANGED <<exSession, now, ticks, events, sinkLog, written>>

\* sendAudio(audioBuffer)
SessSendAudio(p) ==
    LET s == session[p]
    IN  /\ s.pc # "new"
        /\ IF SendAudioRejected(s)
           THEN /\ last' = [op |-> "sendAudio", result |-> "false"]
                /\ UNCHANGED <<session, totalReconnects, written>>
           ELSE /\ s.audioChunksReceived < MaxChunks
                /\ LET s1 == SendAudioAccept(s, now)
                   IN  IF DurationExceeded(s1, now)
                       THEN /\ SetSession(p, StopSession(s1))
                            /\ last' = [op |-> "sendAudio", result |-> "stopping"]
                            /\ UNCHANGED written
                       ELSE /\ written' = written + 1
                            /\ \E canWrite \in BOOLEAN :
                                  IF canWrite
                                  THEN /\ SetSession(p, s1)
                                       /\ last' = [op |-> "sendAudio", result |-> "true"]
                                  ELSE /\ SetSession(p, [s1 EXCEPT !.waiting = @ + 1])
                                       /\ last' = [op |-> "sendAudio", result |-> "waiting"]
        /\ UNCHANGED <<exSession, now, ticks, events, sinkLog>>

\* A plausible slip: the wait for "drain" without the race against 5 s.
WaitOver_DrainOnly(s, byTimeout) == ~byTimeout /\ s.audioStream = "open"

\* Promise.race of "drain" and a timer of 5 s (lines 364-367): the timer
\* always fires, a stream that was ended or destroyed never drains.
WaitOver(s, byTimeout) == byTimeout \/ s.audioStream = "open"

\* The stream drains, or 5 s pass: a suspended sendAudio returns true
SessDrained(p) ==
    /\ session[p].waiting > 0
    /\ \E byTimeout \in BOOLEAN : WaitOver(session[p], byTimeout)
    /\ SetSession(p, [session[p] EXCEPT !.waiting = @ - 1])
    /\ last' = [op |-> "sendAudioReturns", result |-> "true"]
    /\ UNCHANGED <<exSession, now, ticks, events, sinkLog, written>>

\* stop(), called by the owner of the service
SessStop(p) ==
    /\ session[p].pc # "new"
    /\ session[p].stopping = 0
    /\ SetSession(p, StopSession(session[p]))
    /\ last' = [op |-> "stop"]
    /\ UNCHANGED <<exSession, now, ticks, events, sinkLog, written>>

\* The 100 ms wait of a stop() is over
SessStopResume(p) ==
    /\ session[p].stopping > 0
    /\ SetSession(p, StopSessionResume(session[p]))
    /\ last' = [op |-> "stopReturns"]
    /\ UNCHANGED <<exSession, now, ticks, events, sinkLog, written>>

\* The inactivity timer fires, when it is due or up to Jitter later
SessTimer(p) ==
    /\ session[p].inactivityTimeout.armed
    /\ now >= session[p].inactivityTimeout.due
    /\ LET s1 == [session[p] EXCEPT !.inactivityTimeout = NoTimer]
       IN  /\ SetSession(p, IF TimerExpired(s1, now) THEN StopSession(s1) ELSE s1)
           /\ last' = [op |-> "inactivityTimer"]
    /\ UNCHANGED <<exSession, now, ticks, events, sinkLog, written>>

\* Time passes once the service is started: by the inactivity window, by a
\* little more than it, or by more than the longest stream duration.  An armed
\* timer fires at most Jitter after it is due.
Advance ==
    /\ ticks < MaxTicks
    /\ \E p \in SocketIds : session[p] # NullObj /\ session[p].pc # "new"
    /\ \E d \in {maxInactivityTime, maxInactivityTime + Jitter,
                 maxStreamDuration + Jitter} :
          /\ \A p \in SocketIds :
                (session[p] # NullObj /\ session[p].inactivityTimeout.armed)
                    => now + d <= session[p].inactivityTimeout.due + Jitter
          /\ now' = now + d
    /\ ticks' = ticks + 1
    /\ last' = [op |-> "advance"]
    /\ UNCHANGED <<exSession, session, events, sinkLog, written, totalReconnects>>

NextSession ==
    \/ SessStart(Owner) \/ SessHandshake(Owner, Outcomes) \/ SessEvent(Owner)
    \/ SessStreamFail(Owner) \/ SessBackoffDone(Owner, MaxStreams)
    \/ SessSendAudio(Owner) \/ SessDrained(Owner)
    \/ SessStop(Owner) \/ SessStopResume(Owner) \/ SessTimer(Owner)
    \/ Advance

SpecSession == SessionInit /\ [][NextSession]_vars

\* C9: sendAudio on a Stopped session returns failure and changes nothing,
\* and the sink is never called once the session is Stopped.
C9_StoppedRejectsAudio ==
    [][ Stopped(session[Owner]) =>
           /\ sinkLog' = sinkLog
           /\ (last'.op = "sendAudio" =>
                  /\ last'.result = "false"
                  /\ session' = session
                  /\ written' = written) ]_vars

\* A sendAudio was refused during the 100 ms wait of stop(), after the sink
\* had been given a transcript.
C9_Witness ==
    /\ Stopped(session[Owner])
    /\ session[Owner].audioStream = "ended"
    /\ sinkLog # <<>>
    /\ last = [op |-> "sendAudio", result |-> "false"]

\* C10: an active session that has had no audio for longer than the
\* inactivity window, counted from the last chunk or else from the stream's
\* start, has stopped itself (the timer may be Jitter late).
C10_SilentSessionStops ==
    (session[Owner].pc = "streaming" /\ session[Owner].isActive)
        => now - InactivityBase(session[Owner]) <= maxInactivityTime + Jitter

\* C14: a handshake failure classified fatal stops the session without a
\* reconnection attempt, and start(sink) throws.
C14_FatalOpenSurfaced ==
    [][ last' = [op |-> "handshake", outcome |-> "fatal"]
           => /\ ~session'[Owner].isActive
              /\ totalReconnects' = totalReconnects
              /\ session'[Owner].pc = "threw" ]_vars

\* Starting or Streaming: the session is active and is opening a stream or
\* reading its results.
StartingOrStreaming(s) == s.isActive /\ s.pc \in {"handshake", "streaming"}

\* C15: sendAudio on a session that is neither Starting nor Streaming
\* returns failure and writes nothing.
C15_AudioRejectedUnlessStartingOrStreaming ==
    [][ (last'.op = "sendAudio" /\ ~StartingOrStreaming(session[Owner]))
           => (last'.result = "false" /\ written' = written) ]_vars

\* stop() has been called and has returned: stop alone clears the client.
StopReturned(s) == s.pc \notin {"new", "threw"} /\ s.transcribeClient = Null

\* C16: once stop() has returned the sink is not called, whatever arrives.
C16_NoSinkAfterStop ==
    [][ StopReturned(session[Owner]) => sinkLog' = sinkLog ]_vars

\* A result event arrived on the stream after stop() had returned; the loop
\* dropped it and start returned.
C16_Witness ==
    /\ StopReturned(session[Owner])
    /\ session[Owner].stopping = 0
    /\ session[Owner].pc = "returned"
    /\ last.op = "event"
    /\ events > 0
    /\ sinkLog = <<>>

----------------------------------------------------------------------------
(* The reconnection logic over a long life: start, the capability's        *)
(* answers, the backoff and stop.                                          *)

MaxLifeStreams == 5

RcBackoffDone == SessBackoffDone(Owner, MaxLifeStreams)

NextReconnect ==
    \/ SessStart(Owner) \/ SessHandshake(Owner, Outcomes) \/ SessStreamFail(Owner)
    \/ RcBackoffDone \/ SessStop(Owner) \/ SessStopResume(Owner)

SpecReconnect == SessionInit /\ [][NextReconnect]_vars

\* C8 as the spec words it: over the life of a session there are never more
\* than maxReconnectAttempts reconnections.
C8_TotalReconnectsBounded == totalReconnects <= maxReconnectAttempts

\* C8, amended: the counter of attempts since the last successful handshake
\* never exceeds maxReconnectAttempts and is kept from Reconnecting to
\* Starting; a recoverable failure met with the counter at the maximum stops
\* the session, and a Stopped session is never active again.
C8_ReconnectBudget ==
    [][ LET s  == session[Owner]
            s1 == session'[Owner]
        IN  /\ s1.reconnectAttempts <= maxReconnectAttempts
            /\ (s.pc = "backoff" /\ s1.pc = "handshake")
                  => s1.reconnectAttempts = s.reconnectAttempts
            /\ ( /\ s.isActive
                 /\ s.reconnectAttempts = maxReconnectAttempts
                 /\ \/ last'.op = "streamFail"
                    \/ last' = [op |-> "handshake", outcome |-> "recoverable"] )
                  => (~s1.isActive /\ s1.pc = "returned")
            /\ Stopped(s) => (~s1.isActive /\ s1.streamGen = s.streamGen) ]_vars

\* The session stopped on a failure met with the counter at the maximum,
\* after more than maxReconnectAttempts reconnections in all.
C8_Witness ==
    /\ session[Owner].reconnectAttempts = maxReconnectAttempts
    /\ session[Owner].pc = "returned"
    /\ ~session[Owner].isActive
    /\ totalReconnects > maxReconnectAttempts
    /\ last.op \in {"streamFail", "handshake"}

----------------------------------------------------------------------------
(* The Dispatcher  (src/index.js)  and the TranscribeTranslatePipeline     *)
(* (src/unnamed/part_001)                                                  *)

\* roomRoles.get(roomId): an object, modelled by its entries <<id, role>> in
\* insertion order; <<>> stands for a room without entry where that is safe.
RolesOf(rr, roomId) == IF roomId \in DOMAIN rr THEN rr[roomId] ELSE <<>>

\* obj[id]
RoleIn(obj, id) ==
    IF \E i \in 1..Len(obj) : obj[i][1] = id
    THEN obj[CHOOSE i \in 1..Len(obj) : obj[i][1] = id][2]
    ELSE Undefined

\* obj[id] = role
SetRole(obj, id, role) ==
    IF \E i \in 1..Len(obj) : obj[i][1] = id
    THEN [i \in 1..Len(obj) |-> IF obj[i][1] = id THEN <<id, role>> ELSE obj[i]]
    ELSE Append(obj, <<id, role>>)

\* delete obj[id]
DeleteRole(obj, id) ==
    LET Keep(e) == e[1] # id
    IN  SelectSeq(obj, Keep)

\* Object.entries(obj).find(([_, role]) => role === "user")?.[0]
FirstUser(obj) ==
    IF \E i \in 1..Len(obj) : obj[i][2] = "user"
    THEN obj[CHOOSE i \in 1..Len(obj) :
                 obj[i][2] = "user" /\ \A j \in 1..(i - 1) : obj[j][2] # "user"][1]
    ELSE Undefined

\* A plausible slip: every joiner without a role becomes the protected user.
AssignedRole_IgnoresRoom(role, existingUsers) ==
    IF role # Undefined THEN role ELSE "user"

\* The role a joiner gets (lines 62-72)
AssignedRole(role, existingUsers) ==
    IF role # Undefined THEN role
    ELSE IF existingUsers = {} THEN "user" ELSE "caller"

\* A plausible slip: socket.to(roomId), which leaves the speaker out.
RoomTargets_ExceptSpeaker(ioR, roomId, speaker) ==
    {e[2] : e \in {x \in ioR : x[1] = roomId}} \ {speaker}

\* io.to(roomId): every socket in the socket.io room
RoomTargets(ioR, roomId, speaker) == {e[2] : e \in {x \in ioR : x[1] = roomId}}

\* socket.to(roomId): the room without the sender
OtherTargets(ioR, roomId, sender) ==
    {e[2] : e \in {x \in ioR : x[1] = roomId}} \ {sender}

\* io.to(socketId): a socket's own room holds it while it is connected
DirectTargets(conn, socketId) == {socketId} \cap conn

NoFlow == <<0, 0>>

\* One event received by one socket.  `analysis' is the verdict the payload
\* carries or NullObj; `protected' is the user the Dispatcher found or
\* Undefined.
Delivery(event, to, roomId, speaker, speakerRole, flow, analysis, protected) ==
    [event |-> event, to |-> to, room |-> roomId, speaker |-> speaker,
     speakerRole |-> speakerRole, flow |-> flow, analysis |-> analysis,
     protected |-> protected]

\* The pipeline output callback throws before it emits anything when the
\* room has no roles left or the speaker has none (lines 120-122).
CallbackThrows(rr, roomId, speaker) ==
    roomId \notin DOMAIN rr \/ RoleIn(rr[roomId], speaker) = Undefined

\* The pipeline output callback of join-room (lines 118-192): the events it
\* delivers.  out is [flow, scamAnalysis].
OnPipelineOutput(rr, ioR, conn, roomId, speaker, out) ==
    LET speakerRole  == RoleIn(rr[roomId], speaker)
        userSocketId == FirstUser(rr[roomId])
        room         == RoomTargets(ioR, roomId, speaker)
        Emit(event, targets, analysis) ==
            { Delivery(event, t, roomId, speaker, speakerRole, out.flow,
                       analysis, userSocketId) : t \in targets }
    IN  Emit("transcript", room, NullObj)
        \cup Emit("translation", room, NullObj)
        \cup (IF out.scamAnalysis # NullObj /\ speakerRole = "caller"
                 /\ userSocketId # Undefined
              THEN Emit("scam-alert", DirectTargets(conn, userSocketId),
                        out.scamAnalysis)
                   \cup Emit("scam-detection-log", room, out.scamAnalysis)
              ELSE {})
        \cup Emit("pipeline-output", room, out.scamAnalysis)

\* new TranscribeTranslatePipeline(roomId, userId, userRole); a service field
\* is TRUE while it refers to the service object, FALSE when it is null.  The
\* service objects are bedrock[userId], session[userId] and `translation'.
PipelineNew(roomId, userId, userRole) ==
    [ roomId               |-> roomId,
      userId               |-> userId,
      userRole             |-> userRole,
      transcriptionService |-> FALSE,
      translationService   |-> FALSE,
      bedrockService       |-> FALSE,
      isActive             |-> FALSE,
      pipelineCallback     |-> FALSE,
      translation          |-> [isActive |-> FALSE, translationCallback |-> FALSE,
                                translationCount |-> 0],
      stats                |-> [transcriptionsReceived |-> 0,
                                translationsCompleted  |-> 0,
                                analysesCompleted      |-> 0,
                                errors                 |-> 0] ]

\* Pipeline.start up to the await of TranscriptionService.start (lines 37-81)
PipelineStart(pl) ==
    [pl EXCEPT !.pipelineCallback = TRUE,
               !.bedrockService = TRUE,
               !.translationService = TRUE,
               !.translation.isActive = TRUE,
               !.translation.translationCallback = TRUE,
               !.transcriptionService = TRUE]

\* TranslationService.stop
TranslationStop(tr) == [tr EXCEPT !.isActive = FALSE, !.translationCallback = FALSE]

\* printStats -> getStats evaluates this.transcriptionService?.getStatus()
\* (line 320): TranscriptionService has no getStatus method, so the call
\* throws a TypeError whenever the pipeline holds a transcription service.
PrintStatsThrows(pl) == pl.transcriptionService

\* Pipeline.stop from the cleanup of the services on (lines 400-420), reached
\* only with no transcription service to stop
PipelineStopRest(pl) ==
    [pl EXCEPT !.transcriptionService = FALSE,
               !.translationService = FALSE,
               !.translation = IF pl.translationService THEN TranslationStop(@) ELSE @,
               !.bedrockService = FALSE,
               !.pipelineCallback = FALSE]

\* A plausible slip: the catch of stop counts an error, as the catches of
\* the stage handlers do.
PipelineStop_CountsError(pl) ==
    IF PrintStatsThrows(pl)
    THEN [pl EXCEPT !.isActive = FALSE, !.stats.errors = @ + 1]
    ELSE PipelineStopRest([pl EXCEPT !.isActive = FALSE])

\* Pipeline.stop (lines 389-428): isActive is cleared, printStats runs inside
\* the try, and its TypeError is caught by the catch of stop, which logs it
\* and returns with every service as it was.
PipelineStop(pl) ==
    IF PrintStatsThrows(pl)
    THEN [pl EXCEPT !.isActive = FALSE]
    ELSE PipelineStopRest([pl EXCEPT !.isActive = FALSE])

\* The pipeline's BedrockScamDetectionService after Pipeline.stop
BedrockAfterStop(pl, svc) ==
    IF ~PrintStatsThrows(pl) /\ pl.bedrockService THEN BedrockStopSvc(svc) ELSE svc

\* The scamAnalysis of a pipeline output (emitPipelineOutput, lines 236-242)
ScamAnalysis(result) ==
    IF result = NullObj THEN NullObj
    ELSE [scamProbability |-> result.scamProbability,
          riskLevel       |-> result.riskLevel,
          concerns        |-> result.concerns]

\* The speakers of roleMap registered one after the other (lines 210-213)
RECURSIVE RegisterAll(_, _)
RegisterAll(svc, roleMap) ==
    IF roleMap = <<>> THEN svc
    ELSE RegisterAll(RegisterSpeaker(svc, Head(roleMap)[1], Head(roleMap)[2]),
                     Tail(roleMap))

\* this.pipelineCallback(pipelineOutput) at the end of emitPipelineOutput:
\* the events delivered, none when the callback is unset or throws
EmitDeliveries(pl, out) ==
    IF pl.pipelineCallback /\ ~CallbackThrows(roomRoles, pl.roomId, pl.userId)
    THEN OnPipelineOutput(roomRoles, ioRooms, connected, pl.roomId, pl.userId, out)
    ELSE {}

\* The pipeline after emitPipelineOutput: a throwing callback is caught by
\* the caller's try/catch, which counts an error.
AfterEmit(pl) ==
    IF pl.pipelineCallback /\ CallbackThrows(roomRoles, pl.roomId, pl.userId)
    THEN [pl EXCEPT !.stats.errors = @ + 1]
    ELSE pl

RoleRequests == {Undefined, "user", "caller"}

\* Socket ids and room ids are opaque to the code, so no behaviour is lost
\* when the sockets join in the order of SocketOrder and a room is joined
\* only when the rooms before it in RoomOrder have been joined.
SocketOrder == <<"p1", "p2", "p3">>
RoomOrder   == <<"r1", "r2">>

InOrder(p, roomId) ==
    /\ \A i, j \in 1..Len(SocketOrder) :
          (i < j /\ SocketOrder[j] = p) => handlers[SocketOrder[i]].join # "idle"
    /\ \A i, j \in 1..Len(RoomOrder) :
          (i < j /\ RoomOrder[j] = roomId)
              => \E q \in SocketIds : pipe[q] # NullObj /\ pipe[q].roomId = RoomOrder[i]

\* How Pipeline.start may go before the transcription handshake: every
\* stage starts ("ok"), or the analysis stage, the translation stage or the
\* transcription service (credentials missing or invalid) fails to start.
StartOutcomes == {"ok", "bedrock", "translation", "credentials"}

\* Pipeline.start (lines 37-80) up to the throw caused by the stage `failed'
PipelineFailedAt(pl, failed) ==
    LET pl1 == [pl EXCEPT !.pipelineCallback = TRUE, !.bedrockService = TRUE]
        pl2 == [pl1 EXCEPT !.translationService = TRUE,
                           !.translation.isActive = (failed # "translation"),
                           !.translation.translationCallback = TRUE]
    IN  IF failed = "bedrock" THEN pl1
        ELSE IF failed = "translation" THEN pl2
        ELSE [pl2 EXCEPT !.transcriptionService = TRUE]

\* The registration loop of join-room (lines 202-217): every pipeline in the
\* map whose socket is in the room registers every role of the room.
RegisterRoom(bd, rm, rr, pls, pp, roomId) ==
    LET roleMap == RolesOf(rr, roomId)
        holders == {u \in GetUsers(rm, roomId) \cap pls : pp[u].bedrockService}
    IN  [u \in DOMAIN bd |->
            IF u \in holders THEN RegisterAll(bd[u], roleMap) ELSE bd[u]]

\* join-room (index.js 52-226 with Pipeline.start 37-99): up to the await of
\* the transcription handshake when every stage starts, and to its end when
\* a stage fails: the catch of Pipeline.start calls stop and returns false,
\* and the handler, which ignores the value, goes on to register the
\* pipeline.  A socket sends join-room once.
JoinRoom(p, roomId, role, starts) ==
    LET assignedRole == AssignedRole(role, GetUsers(roomManager, roomId))
        new == PipelineNew(roomId, p, assignedRole)
    IN  /\ p \in connected
        /\ handlers[p].join = "idle"
        /\ InOrder(p, roomId)
        /\ roomRoles' = MapSet(roomRoles, roomId,
                               SetRole(RolesOf(roomRoles, roomId), p, assignedRole))
        /\ ioRooms' = ioRooms \cup {<<roomId, p>>}
        /\ roomManager' = AddUser(roomManager, roomId, p)
        /\ members' = members \cup {<<roomId, p>>}
        /\ UNCHANGED poolVars
        /\ delivered' = delivered
              \cup { Delivery(e, p, roomId, p, assignedRole, NoFlow, NullObj, Undefined)
                       : e \in {"role-assigned", "existing-users"} }
              \cup { Delivery("user-joined", t, roomId, p, assignedRole, NoFlow,
                              NullObj, Undefined)
                       : t \in OtherTargets(ioRooms', roomId, p) }
        /\ \E start \in starts :
              LET svc == IF start = "bedrock" THEN BedrockNew(p, assignedRole)
                         ELSE BedrockStartSvc(BedrockNew(p, assignedRole))
                  thrown == PipelineFailedAt(new, start)
              IN  IF start = "ok"
                  THEN /\ pipe' = [pipe EXCEPT ![p] = PipelineStart(new)]
                       /\ bedrock' = [bedrock EXCEPT ![p] = svc]
                       /\ session' = [session EXCEPT ![p] = StartSession(SessionNew, now)]
                       /\ pipelines' = pipelines
                       /\ handlers' = [handlers EXCEPT ![p].join = "starting"]
                       /\ last' = [op |-> "join-room", socket |-> p, room |-> roomId,
                                   role |-> role]
                  ELSE /\ pipe' = [pipe EXCEPT ![p] = PipelineStop(thrown)]
                       /\ bedrock' = RegisterRoom(
                              [bedrock EXCEPT ![p] = BedrockAfterStop(thrown, svc)],
                              roomManager', roomRoles', pipelines, pipe', roomId)
                       /\ session' = [session EXCEPT ![p] =
                                         IF start = "credentials"
                                         THEN StartSessionThrows(SessionNew) ELSE @]
                       /\ pipelines' = pipelines \cup {p}
                       /\ handlers' = [handlers EXCEPT ![p].join = "done"]
                       /\ last' = [op |-> "joined", socket |-> p, started |-> FALSE,
                                   failed |-> start, room |-> roomId, role |-> role]
        /\ UNCHANGED <<flows, capCalls, added, regs, now, ticks, events, sinkLog,
                       written, totalReconnects, connected>>

\* join-room after TranscriptionService.start has resolved (Pipeline.start
\* 82-93, index.js 202-220).  start resolves when initializeStream returns,
\* that is when the session is no longer active.
JoinFinish(p) ==
    /\ handlers[p].join = "starting"
    /\ session[p].pc = "returned"
    /\ pipe' = [pipe EXCEPT ![p].isActive = TRUE]
    /\ bedrock' = RegisterRoom(bedrock, roomManager, roomRoles, pipelines, pipe,
                               pipe[p].roomId)
    /\ pipelines' = pipelines \cup {p}
    /\ handlers' = [handlers EXCEPT ![p].join = "done"]
    /\ last' = [op |-> "joined", socket |-> p, started |-> TRUE,
                failed |-> IF session[p].isActive THEN "none" ELSE "transcription"]
    /\ UNCHANGED <<roomVars, flows, capCalls, added, regs, sessVars, connected,
                   ioRooms, roomRoles, delivered>>

RECURSIVE RemoveFromRooms(_, _, _)
RemoveFromRooms(rm, rooms, userId) ==
    IF rooms = {} THEN rm
    ELSE LET r == CHOOSE x \in rooms : TRUE
         IN  RemoveFromRooms(RemoveUser(rm, r, userId), rooms \ {r}, userId)

\* A plausible slip: the roles of a room are dropped with its last member
\* only, and the role of a socket that leaves others behind stays.
RolesWithout_LastOnly(rr, rooms, userId) ==
    LET left(r) == IF r \in rooms THEN DeleteRole(rr[r], userId) ELSE rr[r]
    IN  [r \in {x \in DOMAIN rr : left(x) # <<>>} |-> rr[r]]

\* The roles after the disconnect handler's loop (lines 327-337)
RolesWithout(rr, rooms, userId) ==
    LET left(r) == IF r \in rooms THEN DeleteRole(rr[r], userId) ELSE rr[r]
    IN  [r \in {x \in DOMAIN rr : left(x) # <<>>} |-> left(r)]

\* The disconnect handler's loop over getUserRooms(socket.id) (lines 325-341)
LeaveRooms(p, ioR) ==
    LET rooms == GetUserRooms(roomManager, p)
    IN  /\ roomRoles' = RolesWithout(roomRoles, rooms, p)
        /\ roomManager' = RemoveFromRooms(roomManager, rooms, p)
        /\ members' = members \ {<<r, p>> : r \in rooms}
        /\ UNCHANGED poolVars
        /\ delivered' = delivered \cup
              { Delivery("user-left", e[2], e[1], p, Undefined, NoFlow, NullObj,
                         Undefined)
                  : e \in {x \in ioR : x[1] \in rooms /\ x[2] # p} }

\* The socket disconnects (lines 312-344): socket.io takes it out of its
\* rooms, the handler calls Pipeline.stop when the socket has a pipeline in
\* the map, deletes it from the map and removes the socket from its rooms.
\* Pipeline.stop never reaches TranscriptionService.stop: it throws before
\* when it holds a transcription service and has none to stop otherwise.
Disconnect(p) ==
    /\ p \in connected
    /\ handlers[p].disc = "none"
    /\ connected' = connected \ {p}
    /\ ioRooms' = {e \in ioRooms : e[2] # p}
    /\ IF p \in pipelines
       THEN /\ pipe' = [pipe EXCEPT ![p] = PipelineStop(@)]
            /\ bedrock' = [bedrock EXCEPT ![p] = BedrockAfterStop(pipe[p], @)]
       ELSE UNCHANGED <<pipe, bedrock>>
    /\ pipelines' = pipelines \ {p}
    /\ LeaveRooms(p, ioRooms')
    /\ handlers' = [handlers EXCEPT ![p].disc = "done"]
    /\ last' = [op |-> "disconnect", socket |-> p]
    /\ UNCHANGED <<flows, capCalls, added, regs, sessVars>>

\* The capability's side of a socket's transcription session
CallHandshake ==
    \E p \in SocketIds : session[p] # NullObj /\ SessHandshake(p, {"ok", "fatal"})

DispJoinRoom ==
    \E p \in SocketIds, r \in RoomIds, role \in RoleRequests :
        JoinRoom(p, r, role, {"ok"})

\* The joins of one call: every socket joins the same room, with no role
\* asked for or as a user.
CallJoinRoom ==
    \E p \in SocketIds, role \in {Undefined, "user"} :
        JoinRoom(p, RoomOrder[1], role, {"ok"})

CallJoinFinish == \E p \in SocketIds : session[p] # NullObj /\ JoinFinish(p)

MaxDisconnects == 1

CallDisconnect ==
    /\ Cardinality(SocketIds \ connected) < MaxDisconnects
    /\ \E p \in SocketIds : Disconnect(p)

CallInit ==
    /\ roomManager = RoomManagerNew
    /\ members = {}
    /\ NoPool
    /\ bedrock = [p \in SocketIds |-> NullObj]
    /\ flows = {}
    /\ capCalls = 0
    /\ added = <<>>
    /\ regs = 0
    /\ SessInit({})
    /\ DispInit(SocketIds)
    /\ last = NoOp

----------------------------------------------------------------------------
(* The Dispatcher with the pipelines as black boxes: a started pipeline    *)
(* may hand any output that emitPipelineOutput can build to its callback.  *)

\* The verdicts a pipeline output may carry
OutputAnalyses(svc, text) ==
    {NullObj} \cup {ScamAnalysis(AnalyzeResult(svc, resp, text)) : resp \in GateResponses}

DispOutput ==
    \E p \in SocketIds :
        /\ pipe[p] # NullObj
        /\ events < MaxEvents
        /\ events' = events + 1
        /\ LET flow == <<events + 1, 1>>
               text == Text("words", flow)
           IN  \E analysis \in OutputAnalyses(bedrock[p], Translated(text)) :
                  LET out == [flow |-> flow, scamAnalysis |-> analysis]
                  IN  /\ delivered' = delivered \cup EmitDeliveries(pipe[p], out)
                      /\ pipe' = [pipe EXCEPT ![p] = AfterEmit(@)]
                      /\ last' = [op |-> "pipelineOutput", socket |-> p,
                                  verdict |-> analysis # NullObj]
        /\ UNCHANGED <<roomVars, bedrockVars, session, now, ticks, sinkLog, written,
                       totalReconnects, connected, ioRooms, roomRoles, pipelines,
                       handlers>>

NextDispatch ==
    \/ DispJoinRoom \/ CallHandshake \/ CallJoinFinish \/ CallDisconnect \/ DispOutput

SpecDispatch == CallInit /\ [][NextDispatch]_vars

\* C1: in a room with a Protected participant, an event that carries the
\* verdict of a Counterpart's utterance is delivered to the Protected
\* participant only: not to the Counterpart who spoke, not to any other member.
C1_VerdictOnlyToProtected ==
    \A d \in delivered :
        (d.analysis # NullObj /\ d.speakerRole = "caller" /\ d.protected # Undefined)
            => (d.to = d.protected /\ d.to # d.speaker)

\* C20: no event that carries a verdict is delivered when the room has no
\* Protected participant.
C20_VerdictDroppedWithoutProtected ==
    \A d \in delivered : d.analysis # NullObj => d.protected # Undefined

----------------------------------------------------------------------------
(* The Dispatcher with its pipelines: a call from join-room to disconnect, *)
(* with the transcription and translation capabilities answering.          *)

\* handleTranscriptionOutput (lines 105-134) up to the await inside
\* translateText: TRUE when the text is given to the translation capability
Translates(pl) == pl.translationService /\ pl.translation.isActive

HandleTranscriptionOutput(pl) ==
    IF Translates(pl)
    THEN [pl EXCEPT !.stats.transcriptionsReceived = @ + 1,
                    !.translation.translationCount = @ + 1]
    ELSE [pl EXCEPT !.stats.transcriptionsReceived = @ + 1,
                    !.stats.errors = @ + 1]

RECURSIVE HandleTranscriptions(_, _)
HandleTranscriptions(pl, n) ==
    IF n = 0 THEN pl ELSE HandleTranscriptions(HandleTranscriptionOutput(pl), n - 1)

\* The result events of a call
CallShapes ==
    { << <<"partial", "words">> >>,
      << <<"partial", "words">>, <<"final", "padded">> >> }

\* A result event of a socket's session: every transcript goes through
\* handleTranscriptionOutput to the translation capability.
PipelineEvent(shapes) ==
    \E p \in SocketIds :
        /\ session[p] # NullObj
        /\ session[p].pc = "streaming"
        /\ events < MaxEvents
        /\ events' = events + 1
        /\ \E shape \in shapes :
              LET results == EventResults(shape, events + 1)
                  texts   == SinkTexts(results)
              IN  IF EventDelivered(session[p])
                  THEN /\ sinkLog' = sinkLog \o Delivered(p, results)
                       /\ pipe' = [pipe EXCEPT ![p] = HandleTranscriptions(@, Len(texts))]
                       /\ flows' = IF Translates(pipe[p])
                                   THEN flows \cup
                                        { Flow(p, 0, "translating", texts[i], NullObj)
                                            : i \in 1..Len(texts) }
                                   ELSE flows
                       /\ UNCHANGED <<session, totalReconnects>>
                  ELSE /\ SetSession(p, StreamFailed(session[p], now))
                       /\ UNCHANGED <<sinkLog, pipe, flows>>
        /\ last' = [op |-> "event", socket |-> p]
        /\ UNCHANGED <<roomVars, bedrock, capCalls, added, regs, now, ticks, written,
                       connected, ioRooms, roomRoles, pipelines, handlers, delivered>>

CallEvent == PipelineEvent(CallShapes)

\* A plausible slip: translateText without the test for an empty result.
TranslateYields_EmptyAccepted(outcome) == outcome \in {"ok", "empty"}

\* translateText yields a Translation when the capability answers with a
\* text that is not blank (line 95); an empty answer and an exception
\* (rate limit, unsupported language pair) yield null (lines 119-136).
TranslateYields(outcome) == outcome = "ok"

\* The translation capability answers and translateText resumes (lines
\* 92-136 of translationService.js); a translation goes through
\* handleTranslationOutput (part_001 140-187) to the Dispatcher's callback.
\* last.callback tells whether the pipeline's output callback was invoked.
CallTranslated ==
    \E f \in flows, outcome \in {"ok", "empty", "error"} :
        LET p   == f.owner
            pl  == pipe[p]
            obj == RolesOf(roomRoles, pl.roomId)
            translated == Translated(f.original)
            pl1  == [pl EXCEPT !.stats.translationsCompleted = @ + 1]
            svc1 == AddToConversation(bedrock[p], f.original, translated, p)
            out  == [flow |-> f.original.id, scamAnalysis |-> NullObj]
        IN  /\ f.stage = "translating"
            /\ last' = [op |-> "translated", socket |-> p,
                        outcome |-> IF outcome = "ok" THEN "ok" ELSE "none",
                        flow |-> f.original.id, speakerRole |-> RoleIn(obj, p),
                        protected |-> FirstUser(obj),
                        callback |->
                            /\ TranslateYields(outcome)
                            /\ pl.translation.translationCallback
                            /\ \/ ~(pl.bedrockService /\ bedrock[p].isActive)
                               \/ AnalyzeEntry(svc1, Undefined) = "null"
                            /\ pl.pipelineCallback]
            /\ IF ~TranslateYields(outcome) \/ ~pl.translation.translationCallback
               THEN /\ flows' = flows \ {f}
                    /\ UNCHANGED <<bedrock, capCalls, pipe, delivered>>
               ELSE IF ~(pl.bedrockService /\ bedrock[p].isActive)
               THEN /\ flows' = flows \ {f}
                    /\ delivered' = delivered \cup EmitDeliveries(pl1, out)
                    /\ pipe' = [pipe EXCEPT ![p] = AfterEmit(pl1)]
                    /\ UNCHANGED <<bedrock, capCalls>>
               ELSE IF AnalyzeEntry(svc1, Undefined) = "null"
               THEN /\ flows' = flows \ {f}
                    /\ bedrock' = [bedrock EXCEPT ![p] = svc1]
                    /\ delivered' = delivered \cup EmitDeliveries(pl1, out)
                    /\ pipe' = [pipe EXCEPT ![p] = AfterEmit(pl1)]
                    /\ UNCHANGED capCalls
               ELSE /\ flows' = (flows \ {f}) \cup
                          {Flow(p, svc1.analysisCount + 1, "analyzing", f.original,
                                translated)}
                    /\ bedrock' = [bedrock EXCEPT ![p] = AnalyzeBegin(svc1)]
                    /\ capCalls' = capCalls + 1
                    /\ pipe' = [pipe EXCEPT ![p] = pl1]
                    /\ UNCHANGED delivered
            /\ UNCHANGED <<roomVars, added, regs, sessVars, connected, ioRooms,
                           roomRoles, pipelines, handlers>>

NextCall ==
    \/ CallJoinRoom \/ CallHandshake \/ CallJoinFinish
    \/ CallDisconnect \/ CallEvent \/ CallTranslated

SpecCall == CallInit /\ [][NextCall]_vars

\* C2: in a room with a Protected participant, every successfully translated
\* utterance of a Counterpart is given to the analysis capability.
C2_CounterpartUtteranceAnalyzed ==
    [][ ( /\ last'.op = "translated"
          /\ last'.outcome = "ok"
          /\ last'.speakerRole = "caller"
          /\ last'.protected # Undefined )
           => capCalls' = capCalls + 1 ]_vars

\* C7: when an utterance of the Protected participant is translated no
\* request goes to the analysis capability, and every connected member of
\* the room receives the transcript and the translation.
C7_ProtectedBroadcastNotAnalyzed ==
    [][ ( /\ last'.op = "translated"
          /\ last'.outcome = "ok"
          /\ last'.speakerRole = "user" )
           => /\ capCalls' = capCalls
              /\ \A u \in GetUsers(roomManager, pipe[last'.socket].roomId) \cap connected :
                    \A e \in {"transcript", "translation"} :
                       \E d \in delivered' :
                          /\ d.event = e
                          /\ d.to = u
                          /\ d.speaker = last'.socket
                          /\ d.flow = last'.flow
                          /\ d.analysis = NullObj ]_vars

\* The Protected participant's translation has reached a Counterpart and the
\* Protected participant, and the analysis capability was never asked.
C7_Witness ==
    /\ last.op = "translated"
    /\ last.outcome = "ok"
    /\ last.speakerRole = "user"
    /\ capCalls = 0
    /\ \E d1, d2 \in delivered :
          /\ d1.event = "translation" /\ d2.event = "translation"
          /\ d1.flow = last.flow /\ d2.flow = last.flow
          /\ d1.speaker = last.socket /\ d2.speaker = last.socket
          /\ d1.to = last.socket
          /\ RoleIn(RolesOf(roomRoles, d2.room), d2.to) = "caller"

----------------------------------------------------------------------------
(* Capacity: sockets joining one after the other, each transcription       *)
(* handshake succeeding.  TranscriptionPoolManager (src/unnamed/part_002)  *)
(* holds the limit, and src/index.js never creates or asks one.            *)

\* constructor(maxConnections = 20)
maxConnections == 20

\* One socket more than the pool would admit
PoolOrder ==
    << "p1", "p2", "p3", "p4", "p5", "p6", "p7", "p8", "p9", "p10", "p11",
       "p12", "p13", "p14", "p15", "p16", "p17", "p18", "p19", "p20", "p21" >>

PoolSocketIds == {PoolOrder[i] : i \in 1..Len(PoolOrder)}

PoolInit ==
    /\ roomManager = RoomManagerNew
    /\ members = {}
    /\ NoPool
    /\ bedrock = [p \in PoolSocketIds |-> NullObj]
    /\ flows = {}
    /\ capCalls = 0
    /\ added = <<>>
    /\ regs = 0
    /\ session = [p \in PoolSocketIds |-> NullObj]
    /\ now = maxInactivityTime
    /\ ticks = 0
    /\ events = 0
    /\ sinkLog = <<>>
    /\ written = 0
    /\ totalReconnects = 0
    /\ connected = PoolSocketIds
    /\ ioRooms = {}
    /\ roomRoles = EmptyMap
    /\ pipelines = {}
    /\ pipe = [p \in PoolSocketIds |-> NullObj]
    /\ handlers = [p \in PoolSocketIds |-> [join |-> "idle", disc |-> "none"]]
    /\ delivered = {}
    /\ last = NoOp

\* The pipelines created by a join whose transcription session is active
LivePipelines ==
    {p \in DOMAIN pipe : pipe[p] # NullObj /\ session[p] # NullObj /\ session[p].isActive}

\* The next socket joins once the handshakes of the sockets before it are over.
PoolJoinRoom ==
    \E i \in 1..Len(PoolOrder) :
        /\ \A j \in 1..(i - 1) :
              /\ session[PoolOrder[j]] # NullObj
              /\ session[PoolOrder[j]].pc # "handshake"
        /\ JoinRoom(PoolOrder[i], RoomOrder[1], Undefined, {"ok"})

PoolHandshake ==
    \E p \in PoolSocketIds : session[p] # NullObj /\ SessHandshake(p, {"ok"})

PoolDisconnect ==
    /\ Cardinality(PoolSocketIds \ connected) < MaxDisconnects
    /\ \E p \in PoolSocketIds : Disconnect(p)

NextPool == PoolJoinRoom \/ PoolHandshake \/ PoolDisconnect

SpecPool == PoolInit /\ [][NextPool]_vars

\* C11: there are never more live pipelines than the pool's maximum.
C11_LivePipelinesBounded == Cardinality(LivePipelines) <= maxConnections

----------------------------------------------------------------------------
(* The life of one participant's pipeline: join-room with every way        *)
(* Pipeline.start may go, the transcription capability's answers, the      *)
(* reconnection, result events and translations, and the disconnect.       *)

Solo == SocketOrder[1]

LifeInit ==
    /\ roomManager = RoomManagerNew
    /\ members = {}
    /\ NoPool
    /\ bedrock = [p \in SocketIds |-> NullObj]
    /\ flows = {}
    /\ capCalls = 0
    /\ added = <<>>
    /\ regs = 0
    /\ SessInit({})
    /\ DispInit({Solo})
    /\ last = NoOp

\* The result events of a life: no final transcript, or two of them
LifeShapes ==
    { << <<"partial", "words">> >>,
      << <<"final", "words">>, <<"final", "padded">> >> }

LifeJoinRoom == JoinRoom(Solo, RoomOrder[1], Undefined, StartOutcomes)

LifeHandshake == session[Solo] # NullObj /\ SessHandshake(Solo, Outcomes)

LifeStreamFail == session[Solo] # NullObj /\ SessStreamFail(Solo)

LifeBackoffDone == session[Solo] # NullObj /\ SessBackoffDone(Solo, MaxStreams)

LifeEvent == PipelineEvent(LifeShapes)

LifeDisconnect == Disconnect(Solo)

NextLife ==
    \/ LifeJoinRoom \/ LifeHandshake \/ LifeStreamFail \/ LifeBackoffDone
    \/ LifeEvent \/ CallTranslated \/ CallJoinFinish \/ LifeDisconnect

SpecLife == LifeInit /\ [][NextLife]_vars

\* C12: when a stage failed to start during Pipeline.start, then at the return
\* of start the pipeline is not marked active and none of its stages is
\* active.
C12_NoPartiallyLivePipeline ==
    [][ (last'.op = "joined" /\ last'.failed # "none")
           => LET p == last'.socket
              IN  /\ ~pipe'[p].isActive
                  /\ ~bedrock'[p].isActive
                  /\ ~pipe'[p].translation.isActive
                  /\ ~(session'[p] # NullObj /\ session'[p].isActive) ]_vars

\* C13: when Pipeline.start has returned false during a join, the joining
\* socket is sent an error and has no pipeline in the Dispatcher's map.
C13_FailedStartNotRegistered ==
    [][ (last'.op = "joined" /\ ~last'.started)
           => /\ last'.socket \notin pipelines'
              /\ \E d \in delivered' \ delivered :
                    d.event = "error" /\ d.to = last'.socket ]_vars

\* Pipeline.stop has been called for the socket's pipeline and has returned:
\* by the catch of Pipeline.start or by the disconnect handler.
PipelineStopReturned(p) ==
    pipe[p] # NullObj /\ handlers[p].join = "done" /\ ~pipe[p].isActive

\* C17: once Pipeline.stop has returned, the pipeline's output callback is
\* not invoked, whatever translation was in flight.
C17_NoOutputAfterPipelineStop ==
    [][ (last'.op = "translated" /\ PipelineStopReturned(last'.socket))
           => ~last'.callback ]_vars

----------------------------------------------------------------------------
(* Stopping: one participant's pipeline from join-room to disconnect with  *)
(* the clock, the inactivity timer that start arms when it returns, and    *)
(* the stop that the timer calls.                                          *)

LifeTimer == session[Solo] # NullObj /\ SessTimer(Solo)

LifeStopResume == session[Solo] # NullObj /\ SessStopResume(Solo)

NextStop ==
    \/ LifeJoinRoom \/ LifeHandshake \/ LifeStreamFail \/ LifeBackoffDone
    \/ CallJoinFinish \/ LifeTimer \/ LifeStopResume \/ Advance \/ LifeDisconnect

SpecStop == LifeInit /\ [][NextStop]_vars

\* TranscriptionService.stop called and run to its end
StopTwiceSequential(s) ==
    LET first == StopSession(s)
    IN  IF first.stopping > s.stopping THEN StopSessionResume(first) ELSE first

\* A second stop called during the 100 ms wait of the first, both run to
\* their ends; a first stop without wait leaves no room for an overlap.
StopTwiceOverlapping(s) ==
    LET first  == StopSession(s)
        second == StopSession(first)
    IN  IF first.stopping > s.stopping
        THEN StopSessionResume(StopSessionResume(second))
        ELSE StopTwiceSequential(first)

\* C18: in every state a session or a pipeline can be in, a second stop,
\* after the first or overlapping it, leaves what a single stop leaves.
C18_StopIdempotent ==
    \A p \in DOMAIN pipe :
        /\ session[p] # NullObj =>
              LET once == StopTwiceSequential(session[p])
              IN  /\ StopTwiceSequential(once) = once
                  /\ StopTwiceOverlapping(session[p]) = once
                  /\ ~once.isActive /\ once.audioStream = "none"
                  /\ once.transcribeClient = Null /\ ~once.inactivityTimeout.armed
        /\ pipe[p] # NullObj =>
              LET once == PipelineStop(pipe[p])
                  svc  == BedrockAfterStop(pipe[p], bedrock[p])
              IN  /\ PipelineStop(once) = once
                  /\ BedrockAfterStop(once, svc) = svc
                  /\ ~once.isActive

\* The disconnect handler has called Pipeline.stop on a pipeline that the
\* catch of Pipeline.start had stopped before, and left it as it was.
C18_Witness ==
    /\ last.op = "disconnect"
    /\ handlers[Solo].join = "done"
    /\ session[Solo] # NullObj
    /\ session[Solo].pc = "threw"
    /\ pipe[Solo] = PipelineStop(PipelineStop(PipelineFailedAt(
                        PipelineNew(RoomOrder[1], Solo, "user"), "credentials")))

\* C19: when translateText yields no Translation for an utterance, nothing
\* is added to the conversation window, no request goes to the analysis
\* capability, the output callback is not invoked and nothing is delivered;
\* the pipeline and its services stay as they were.
C19_NoTranslationSkipsUtterance ==
    [][ (last'.op = "translated" /\ last'.outcome = "none")
           => /\ bedrock' = bedrock
              /\ capCalls' = capCalls
              /\ ~last'.callback
              /\ delivered' = delivered
              /\ pipe' = pipe
              /\ session' = session ]_vars

\* Of two utterances of one result event, one got no Translation and left
\* no trace, and the other one, translated afterwards, was delivered.
C19_Witness ==
    /\ last.op = "translated"
    /\ last.outcome = "ok"
    /\ last.callback
    /\ flows = {}
    /\ \E d \in delivered : d.event = "translation" /\ d.flow = last.flow
    /\ \E i \in 1..Len(sinkLog) :
          /\ sinkLog[i][1] = last.socket
          /\ sinkLog[i][2].id # last.flow
          /\ \A d \in delivered : d.flow # sinkLog[i][2].id
          /\ Len(bedrock[last.socket].conversationHistory) = 1

----------------------------------------------------------------------------
(* Concurrent join-room and disconnect handlers: up to three sockets join  *)
(* the rooms with any role request, Pipeline.start may fail at any stage,  *)
(* the handshakes complete in any order and a socket may disconnect at any *)
(* point of its join.  A handler runs without interruption up to its first *)
(* await of an I/O completion: `await socket.join(roomId)' (line 86) is    *)
(* resumed by a microtask, before the event of any other socket is         *)
(* dispatched, so lines 52-112 run as one step.                            *)

JoinJoinRoom ==
    \E p \in SocketIds, r \in RoomIds, role \in RoleRequests :
        JoinRoom(p, r, role, StartOutcomes)

NextJoin == JoinJoinRoom \/ CallHandshake \/ CallJoinFinish \/ CallDisconnect

SpecJoin == CallInit /\ [][NextJoin]_vars

\* The sockets socket.io holds in the room
Occupants(ioR, roomId) == {e[2] : e \in {x \in ioR : x[1] = roomId}}

\* The step is the first part of p's join-room handler
JoinStep(p) == handlers[p].join = "idle" /\ handlers'[p].join # "idle"

\* C21: a join that supplies no role is assigned Protected when the room
\* holds nobody and Counterpart when it holds somebody, whatever the other
\* join handlers in progress; so a joiner is never auto-assigned Protected
\* into a room that holds another participant.
C21_FirstJoinerProtected ==
    [][\A p \in SocketIds, r \in RoomIds :
          (JoinStep(p) /\ last'.room = r /\ last'.role = Undefined)
              => RoleIn(RolesOf(roomRoles', r), p)
                    = IF Occupants(ioRooms, r) = {} THEN "user" ELSE "caller"]_vars

\* A join without role becomes Counterpart while the first joiner's handler
\* is still inside Pipeline.start.
C21_Witness ==
    /\ last.op = "join-room"
    /\ last.role = Undefined
    /\ RoleIn(RolesOf(roomRoles, last.room), last.socket) = "caller"
    /\ \E q \in SocketIds \ {last.socket} :
          /\ handlers[q].join = "starting"
          /\ RoleIn(RolesOf(roomRoles, last.room), q) = "user"

\* No join-room handler is suspended inside Pipeline.start (the disconnect
\* handler runs as one step).
Quiescent == \A p \in SocketIds : handlers[p].join # "starting"

\* C22: at every quiescent point the pipeline map holds a pipeline for a
\* socket if and only if the socket is connected and has joined a room.
C22_PipelineIffConnected ==
    Quiescent =>
        \A p \in SocketIds :
            p \in pipelines
                <=> (p \in connected /\ \E r \in RoomIds : p \in Occupants(ioRooms, r))

----------------------------------------------------------------------------
(* The verdicts of analyzeConversation: one analysis service, speakers     *)
(* registered with any role, and every answer of Responses.                *)

MaxVerdicts == 2

VdAnalyzeCall ==
    \E text \in Texts, sid \in {Owner, Peer} :
        LET svc == bedrock[Owner]
        IN  /\ AnalyzeEntry(svc, sid) = "send"
            /\ svc.analysisCount < MaxVerdicts
            /\ bedrock' = [bedrock EXCEPT ![Owner] = AnalyzeBegin(@)]
            /\ capCalls' = capCalls + 1
            /\ flows' = flows \cup
                   {Flow(Owner, svc.analysisCount + 1, "analyzing", text, text)}
            /\ last' = [op |-> "analyze", speakerId |-> sid, text |-> text,
                        result |-> "pending"]
            /\ UNCHANGED <<exBedrock, added, regs>>

VdAnalyzeRespond == AnalyzeRespond(Responses)

NextVerdict == BdStart \/ BdRegister \/ VdAnalyzeCall \/ VdAnalyzeRespond

SpecVerdict == SvcInit /\ [][NextVerdict]_vars

\* A score in [0,100]
ScoreInRange(x) == ~x.nan /\ 0 <= x.v /\ x.v <= 100

\* C23: the score of every verdict analyzeConversation returns lies in
\* [0,100] whatever the capability answered, and so does the running mean
\* of the scores.
C23_ScoreClamped ==
    (last.op = "analyzeDone" /\ last.verdict # NullObj)
        => /\ ScoreInRange(last.verdict.scamProbability)
           /\ LET avg == bedrock[Owner].stats.averageRiskScore
              IN  ~avg.nan /\ 0 <= avg.num /\ avg.num <= 100 * avg.den

\* C24: when the answer holds no parseable JSON object analyzeConversation
\* returns a verdict with score 0, risk level LOW and no concerns, and not
\* null.
C24_UnparseableGivesDefault ==
    (last.op = "analyzeDone" /\ last.response.kind \in {"nojson", "badjson"})
        => /\ last.verdict # NullObj
           /\ last.verdict.scamProbability = [nan |-> FALSE, v |-> 0]
           /\ last.verdict.riskLevel = "LOW"
           /\ last.verdict.concerns = "none"

\* The second analysis of a service got an unparseable answer after the
\* first had returned a high score.
C24_Witness ==
    /\ last.op = "analyzeDone"
    /\ last.response.kind = "badjson"
    /\ last.verdict # NullObj
    /\ bedrock[Owner].stats.totalAnalyses = 2
    /\ bedrock[Owner].stats.highRiskDetections = 1
    /\ bedrock[Owner].stats.lowRiskDetections = 1

----------------------------------------------------------------------------
(* The results of one session: several result events over the streams of   *)
(* a session that may fail, reconnect and be stopped.                      *)

MaxResultEvents == 3

StreamEvent == SessEventUpTo(Owner, MaxResultEvents, TRUE)

NextStream ==
    \/ SessStart(Owner) \/ SessHandshake(Owner, Outcomes) \/ StreamEvent
    \/ SessStreamFail(Owner) \/ SessBackoffDone(Owner, MaxStreams)
    \/ SessStop(Owner) \/ SessStopResume(Owner)

SpecStream == SessionInit /\ [][NextStream]_vars

\* A finalized result that carries text: not partial, and a transcript
\* with something else than white space in it.
FinalizedWithText(r) == r[1] = "final" /\ r[2].kind \in {"words", "padded"}

\* <<n, i>> is emitted before <<m, j>>: an earlier event, or an earlier
\* result of the same event.
EmittedBefore(a, b) == a[1] < b[1] \/ (a[1] = b[1] /\ a[2] < b[2])

\* C25: within one session the sink is invoked exactly once for each
\* finalized result with text, in the order the capability emitted them, and
\* never for a partial result: each result event of an active session
\* appends its finalized results with text to the sink's invocations, in
\* order, and the invocations are in emission order without repetition.
C25_SinkIsFinalizedResults ==
    [][ (last'.op = "event" /\ events' = events + 1 /\ session[Owner].isActive)
        => LET fin == SelectSeq(last'.results, FinalizedWithText)
           IN  /\ Len(sinkLog') = Len(sinkLog) + Len(fin)
               /\ \A i \in 1..Len(sinkLog) : sinkLog'[i] = sinkLog[i]
               /\ \A i \in 1..Len(fin) :
                     /\ sinkLog'[Len(sinkLog) + i][1] = Owner
                     /\ sinkLog'[Len(sinkLog) + i][2].id = fin[i][2].id
               /\ \A i, j \in 1..Len(sinkLog') :
                     i < j => EmittedBefore(sinkLog'[i][2].id, sinkLog'[j][2].id) ]_vars

\* The third event of a session, on its second stream, carried a partial
\* and a finalized result; the sink had fired twice for the first event and
\* not at all for the second.
C25_Witness ==
    /\ last.op = "event"
    /\ events = 3
    /\ session[Owner].streamGen = 2
    /\ Len(last.results) = 2
    /\ last.results[1][1] = "partial"
    /\ Len(sinkLog) = 3
    /\ sinkLog[1][2].id = <<1, 1>>
    /\ sinkLog[2][2].id = <<1, 2>>
    /\ sinkLog[3][2].id = <<3, 2>>

----------------------------------------------------------------------------
(* TranscriptionPoolManager  (src/unnamed/part_002) on its own: a pool     *)
(* built with a small maximum, any sequence of addConnection and           *)
(* removeConnection calls, and cleanupAll.  activeConnections, a JS Map,   *)
(* is the sequence of its entries <<userId, service>> in insertion order.  *)

MaxPoolCap == 3

PoolCaps  == 1..MaxPoolCap
PoolUsers == {PoolOrder[i] : i \in 1..(MaxPoolCap + 1)}
Services  == {"s1", "s2"}

\* new TranscriptionPoolManager(maxConnections)
PoolManagerNew(max) == [maxConnections |-> max, activeConnections |-> <<>>]

PoolKeys(pm) == {pm.activeConnections[i][1] : i \in 1..Len(pm.activeConnections)}

\* A plausible slip: <= for <.
CanAddConnection_OffByOne(pm) == Len(pm.activeConnections) <= pm.maxConnections

CanAddConnection(pm) == Len(pm.activeConnections) < pm.maxConnections

\* addConnection when it does not throw
AddConnection(pm, userId, service) ==
    [pm EXCEPT !.activeConnections = SetRole(@, userId, service)]

RemoveConnection(pm, userId) ==
    [pm EXCEPT !.activeConnections = DeleteRole(@, userId)]

PmInit ==
    /\ roomManager = RoomManagerNew
    /\ members = {}
    /\ \E max \in PoolCaps : pool = PoolManagerNew(max)
    /\ drain = NoDrain
    /\ bedrock = [p \in SocketIds |-> NullObj]
    /\ flows = {}
    /\ capCalls = 0
    /\ added = <<>>
    /\ regs = 0
    /\ SessInit({})
    /\ DispInit({})
    /\ last = NoOp

exPool == <<roomManager, members, bedrockVars, sessVars, dispVars>>

PmAddConnection ==
    \E u \in PoolUsers, svc \in Services :
        /\ drain.pc # "running"
        /\ IF CanAddConnection(pool)
           THEN /\ pool' = AddConnection(pool, u, svc)
                /\ last' = [op |-> "addConnection", userId |-> u, threw |-> FALSE]
           ELSE /\ pool' = pool
                /\ last' = [op |-> "addConnection", userId |-> u, threw |-> TRUE]
        /\ drain' = NoDrain
        /\ UNCHANGED exPool

PmRemoveConnection ==
    \E u \in PoolUsers :
        /\ drain.pc # "running"
        /\ pool' = RemoveConnection(pool, u)
        /\ last' = [op |-> "removeConnection", userId |-> u,
                    result |-> (u \in PoolKeys(pool))]
        /\ drain' = NoDrain
        /\ UNCHANGED exPool

NextPoolManager == PmAddConnection \/ PmRemoveConnection

SpecPoolManager == PmInit /\ [][NextPoolManager]_vars

\* C26: after any sequence of addConnection and removeConnection calls the
\* pool holds at most maxConnections sessions; addConnection on a full pool
\* throws and leaves the pool as it was; removeConnection takes out the
\* entry of the named user and no other.
C26_PoolBounded ==
    [][ /\ Cardinality(PoolKeys(pool')) <= pool'.maxConnections
        /\ Len(pool'.activeConnections) = Cardinality(PoolKeys(pool'))
        /\ (last'.op = "addConnection"
            /\ Cardinality(PoolKeys(pool)) >= pool.maxConnections)
              => (last'.threw /\ pool' = pool)
        /\ last'.op = "removeConnection"
              => /\ PoolKeys(pool') = PoolKeys(pool) \ {last'.userId}
                 /\ \A u \in PoolKeys(pool') :
                       RoleIn(pool'.activeConnections, u)
                          = RoleIn(pool.activeConnections, u) ]_vars

\* An admission was accepted into the last free slot of a pool of the
\* largest maximum, for the last user of PoolUsers.
C26_Witness ==
    /\ last.op = "addConnection"
    /\ ~last.threw
    /\ pool.maxConnections = MaxPoolCap
    /\ Cardinality(PoolKeys(pool)) = pool.maxConnections
    /\ pool.activeConnections[pool.maxConnections][1] = PoolOrder[MaxPoolCap + 1]

----------------------------------------------------------------------------
(* cleanupAll (part_002 39-54): the loop over the live iterator of         *)
(* activeConnections, one step per awaited stop, which resolves or         *)
(* rejects.  An entry whose stop resolved is deleted, one whose stop       *)
(* rejected stays; drain.pos counts the entries the iterator has passed    *)
(* and left in the Map.  No other method of the pool is called while       *)
(* cleanupAll is waiting, and what cleanupAll did is forgotten at the next *)
(* call of a method.                                                       *)

StopOutcomes == {"ok", "throws"}

\* A plausible slip: the try around the whole loop, so that the first
\* failing stop ends it.
CleanupVisit_AbortsOnThrow(pm, d, outcome) ==
    LET entry == pm.activeConnections[d.pos + 1]
        called == [d EXCEPT !.stopped = Append(@, entry)]
    IN  IF outcome = "ok"
        THEN [pool |-> RemoveConnection(pm, entry[1]), drain |-> called]
        ELSE [pool |-> pm, drain |-> [called EXCEPT !.pos = Len(pm.activeConnections)]]

\* One turn of the loop: service.stop() is called and settles
CleanupVisit(pm, d, outcome) ==
    LET entry == pm.activeConnections[d.pos + 1]
        called == [d EXCEPT !.stopped = Append(@, entry)]
    IN  IF outcome = "ok"
        THEN [pool |-> RemoveConnection(pm, entry[1]), drain |-> called]
        ELSE [pool |-> pm, drain |-> [called EXCEPT !.pos = @ + 1]]

PmCleanupBegin ==
    /\ drain.pc # "running"
    /\ drain' = [pc |-> "running", pos |-> 0, live |-> pool.activeConnections,
                 stopped |-> <<>>]
    /\ last' = [op |-> "cleanupAll"]
    /\ UNCHANGED <<exPool, pool>>

PmCleanupStep ==
    /\ drain.pc = "running"
    /\ IF drain.pos < Len(pool.activeConnections)
       THEN \E outcome \in StopOutcomes :
               LET after == CleanupVisit(pool, drain, outcome)
               IN  /\ pool' = after.pool
                   /\ drain' = after.drain
                   /\ last' = [op |-> "stop", outcome |-> outcome]
       ELSE /\ drain' = [drain EXCEPT !.pc = "done"]
            /\ pool' = pool
            /\ last' = [op |-> "cleanedUp"]
    /\ UNCHANGED exPool

NextDrain == PmAddConnection \/ PmRemoveConnection \/ PmCleanupBegin \/ PmCleanupStep

\* Every awaited stop settles: TranscriptionService.stop waits 100 ms at
\* most and catches its own errors.
SpecDrain == PmInit /\ [][NextDrain]_vars /\ WF_vars(PmCleanupStep)

\* C27: cleanupAll ends, and when it has ended stop was invoked on every
\* session that was in the pool when it was called, whichever of the stops
\* failed.
C27_DrainStopsAll ==
    /\ [](drain.pc = "done"
            => \A i \in 1..Len(drain.live) :
                  \E j \in 1..Len(drain.stopped) : drain.stopped[j] = drain.live[i])
    /\ (drain.pc = "running" ~> drain.pc = "done")

\* cleanupAll has ended on a pool of three sessions: the stop of the first
\* failed, the two after it were stopped and deleted.
C27_Witness ==
    /\ drain.pc = "done"
    /\ Len(drain.live) = 3
    /\ Len(drain.stopped) = 3
    /\ Len(pool.activeConnections) = 1
    /\ pool.activeConnections[1] = drain.live[1]

----------------------------------------------------------------------------
(* The backoff of handleStreamError, under SpecReconnect.                  *)

\* The step is a failure after which the session waits to reconnect
EntersBackoff == session[Owner].pc # "backoff" /\ session'[Owner].pc = "backoff"

\* C28: the delay before a reconnection attempt is
\* min(1000 * 2^attempt, 5000) where attempt is the value of the attempt
\* counter at the failure, before it is incremented; it never exceeds 5000.
C28_BackoffFromCounterBeforeIncrement ==
    [][ EntersBackoff
        => /\ session'[Owner].delay
                = (IF 1000 * (2 ^ session[Owner].reconnectAttempts) < 5000
                   THEN 1000 * (2 ^ session[Owner].reconnectAttempts) ELSE 5000)
           /\ session'[Owner].delay <= 5000 ]_vars

----------------------------------------------------------------------------
(* The Stopped state of a session, under SpecSession.                      *)

\* The inactivity timer is cancelled, the outbound audio stream is closed
\* and the capability client is released.
Released(s) ==
    /\ ~s.inactivityTimeout.armed
    /\ s.audioStream \in {"none", "destroyed"}
    /\ s.transcribeClient = Null

\* C29: a session that is Stopped, by whatever path, and has no stop() still
\* waiting, has released its resources.
C29_StoppedReleasesResources ==
    (Stopped(session[Owner]) /\ session[Owner].stopping = 0)
        => Released(session[Owner])

\* C30: once a session is Stopped no step makes it active again and none
\* opens a new stream for it: not the end of the backoff wait, not the
\* inactivity timer, not a late result event, not the completion of a
\* handshake in flight.
C30_StoppedIsTerminal ==
    [][ Stopped(session[Owner])
        => /\ Stopped(session'[Owner])
           /\ session'[Owner].streamGen = session[Owner].streamGen
           /\ (session'[Owner].audioStream = "open"
                  => session[Owner].audioStream = "open") ]_vars

\* The backoff wait of a session that was stopped meanwhile has ended, and
\* the session has opened nothing.
C30_Witness ==
    /\ last.op = "backoffDone"
    /\ Stopped(session[Owner])
    /\ session[Owner].streamGen = 1
    /\ session[Owner].audioStream # "open"
    /\ session[Owner].pc = "returned"

----------------------------------------------------------------------------
(* The pipeline and its session, under SpecLife.                           *)

\* The session of socket p is Streaming
Streaming(p) ==
    session[p] # NullObj /\ session[p].pc = "streaming" /\ session[p].isActive

\* C31: while a session is Streaming its pipeline is marked active and is
\* registered in the Dispatcher's map (so that audio reaches the session).
C31_StreamingPipelineIsLive ==
    Streaming(Solo) => (pipe[Solo].isActive /\ Solo \in pipelines)

----------------------------------------------------------------------------
(* The risk level of a verdict, under SpecVerdict.                         *)

\* The configured thresholds (part_004 27-28)
HIGH_RISK_THRESHOLD   == 61
MEDIUM_RISK_THRESHOLD == 31

RiskLevels == {"LOW", "MEDIUM", "HIGH"}

\* The level the thresholds give a score
Rubric(v) ==
    IF v >= HIGH_RISK_THRESHOLD THEN "HIGH"
    ELSE IF v >= MEDIUM_RISK_THRESHOLD THEN "MEDIUM" ELSE "LOW"

\* C32: every verdict analyzeConversation returns (with a numeric score) has
\* a risk level among
\* LOW, MEDIUM and HIGH, the one the thresholds give its clamped score, and
\* the counters of the statistics count the verdicts by that level.
C32_RiskLevelFollowsScore ==
    (last.op = "analyzeDone" /\ last.verdict # NullObj
     /\ ~last.verdict.scamProbability.nan)
        => /\ last.verdict.riskLevel \in RiskLevels
           /\ last.verdict.riskLevel = Rubric(last.verdict.scamProbability.v)
           /\ LET st == bedrock[Owner].stats
              IN  st.highRiskDetections + st.mediumRiskDetections
                     + st.lowRiskDetections = st.totalAnalyses

----------------------------------------------------------------------------
(* The conversation windows of a room, under SpecCall.                     *)

\* Sockets p and q are connected members of one room, each with an analysis
\* service
RoomMates(p, q) ==
    /\ p \in connected /\ q \in connected
    /\ bedrock[p] # NullObj /\ bedrock[q] # NullObj
    /\ pipe[p].roomId = pipe[q].roomId

\* C33: the window that serves as context when a Counterpart's utterance is
\* analyzed holds the translated utterances of every participant of the
\* room, each labelled with its speaker's role: whatever the window of a
\* room mate's pipeline holds, the window of the Counterpart's pipeline
\* holds too.
C33_WindowSharedPerRoom ==
    \A p, q \in SocketIds :
        (RoomMates(p, q)
         /\ RoleIn(RolesOf(roomRoles, pipe[q].roomId), q) = "caller")
            => \A i \in 1..Len(bedrock[p].conversationHistory) :
                  \E j \in 1..Len(bedrock[q].conversationHistory) :
                     LET m == bedrock[p].conversationHistory[i]
                         n == bedrock[q].conversationHistory[j]
                     IN  /\ n.translatedText = m.translatedText
                         /\ n.speakerId = m.speakerId
                         /\ n.role = RoleIn(RolesOf(roomRoles, pipe[q].roomId),
                                            m.speakerId)

----------------------------------------------------------------------------
(* sendAudio to its end: the session of SpecSession without its result     *)
(* events, where every timer that is set fires: the 5 s of the             *)
(* backpressure wait and the 100 ms of stop().                             *)

NextAudio ==
    \/ SessStart(Owner) \/ SessHandshake(Owner, Outcomes)
    \/ SessStreamFail(Owner) \/ SessBackoffDone(Owner, MaxStreams)
    \/ SessSendAudio(Owner) \/ SessDrained(Owner)
    \/ SessStop(Owner) \/ SessStopResume(Owner) \/ SessTimer(Owner)
    \/ Advance

SpecAudio ==
    /\ SessionInit /\ [][NextAudio]_vars
    /\ WF_vars(SessDrained(Owner)) /\ WF_vars(SessStopResume(Owner))

\* C34: every sendAudio call returns: a call that waits on backpressure
\* ends its wait, also when the session is stopped or its stream replaced
\* meanwhile, and a call that stops the session returns with stop().
C34_SendAudioReturns ==
    /\ (session[Owner].waiting > 0 ~> session[Owner].waiting = 0)
    /\ (session[Owner].stopping > 0 ~> session[Owner].stopping = 0)

\* A sendAudio call is waiting on backpressure and the session was stopped
\* meanwhile.
C34_Witness ==
    /\ session[Owner].waiting > 0
    /\ Stopped(session[Owner])
    /\ session[Owner].audioStream # "open"

----------------------------------------------------------------------------
(* A failing analysis capability, under SpecVerdict.                       *)

----------------------------------------------------------------------------
(* The speakers known to the pipelines of a room, under SpecJoin.          *)

\* C36: once a socket's join has completed, every live pipeline in the map
\* -- the joiner's own too -- knows every member of its room by the role
\* the room assigned to it, so that no lookup of a member gives "unknown".
C36_MembersRegistered ==
    \A p \in SocketIds :
        (handlers[p].join = "done" /\ p \in pipelines /\ pipe[p].isActive)
            => \A q \in GetUsers(roomManager, pipe[p].roomId) :
                  GetSpeakerRole(bedrock[p], q)
                      = RoleIn(RolesOf(roomRoles, pipe[p].roomId), q)

----------------------------------------------------------------------------
(* One socket sending join-room twice.  The handler builds a new Pipeline  *)
(* on every join-room, so the socket Solo has up to two Pipeline objects:  *)
(* the object of its first join is kept at Solo, as everywhere else, and   *)
(* the object of its second join at Second, with its session, its analysis *)
(* service and the position of the handler that built it.  `pipelines'     *)
(* holds the objects that are values of the map, at most one for a socket. *)

Second == SocketOrder[2]

\* pipelines.set(userId, pipeline): the entry of the socket is replaced
PipelinesSet(pls, x) == {y \in pls : pipe[y].userId # pipe[x].userId} \cup {x}

RejoinFirst ==
    \E r \in RoomIds, role \in RoleRequests : JoinRoom(Solo, r, role, {"ok"})

\* The second join-room of Solo (index.js 52-117), every stage starting
RejoinRoom ==
    \E roomId \in RoomIds, role \in RoleRequests :
        LET assignedRole == AssignedRole(role, GetUsers(roomManager, roomId))
        IN  /\ Solo \in connected
            /\ handlers[Solo].join # "idle"
            /\ handlers[Second].join = "idle"
            /\ roomRoles' = MapSet(roomRoles, roomId,
                                   SetRole(RolesOf(roomRoles, roomId), Solo, assignedRole))
            /\ ioRooms' = ioRooms \cup {<<roomId, Solo>>}
            /\ roomManager' = AddUser(roomManager, roomId, Solo)
            /\ members' = members \cup {<<roomId, Solo>>}
            /\ UNCHANGED poolVars
            /\ delivered' = delivered
                  \cup { Delivery(e, Solo, roomId, Solo, assignedRole, NoFlow, NullObj,
                                  Undefined)
                           : e \in {"role-assigned", "existing-users"} }
                  \cup { Delivery("user-joined", t, roomId, Solo, assignedRole, NoFlow,
                                  NullObj, Undefined)
                           : t \in OtherTargets(ioRooms', roomId, Solo) }
            /\ pipe' = [pipe EXCEPT ![Second] =
                           PipelineStart(PipelineNew(roomId, Solo, assignedRole))]
            /\ bedrock' = [bedrock EXCEPT ![Second] =
                              BedrockStartSvc(BedrockNew(Solo, assignedRole))]
            /\ session' = [session EXCEPT ![Second] = StartSession(SessionNew, now)]
            /\ handlers' = [handlers EXCEPT ![Second].join = "starting"]
            /\ last' = [op |-> "join-room", socket |-> Solo, room |-> roomId,
                        role |-> role]
            /\ UNCHANGED <<pipelines, flows, capCalls, added, regs, now, ticks, events,
                           sinkLog, written, totalReconnects, connected>>

RejoinHandshake ==
    \E x \in {Solo, Second} : session[x] # NullObj /\ SessHandshake(x, {"ok", "fatal"})

\* The end of a join-room of Solo (index.js 202-220) for the Pipeline x
RejoinFinish ==
    \E x \in {Solo, Second} :
        LET roomId == pipe[x].roomId
            holders == {y \in pipelines : /\ pipe[y].userId \in GetUsers(roomManager, roomId)
                                          /\ pipe[y].bedrockService}
        IN  /\ handlers[x].join = "starting"
            /\ session[x].pc = "returned"
            /\ pipe' = [pipe EXCEPT ![x].isActive = TRUE]
            /\ bedrock' = [y \in DOMAIN bedrock |->
                              IF y \in holders
                              THEN RegisterAll(bedrock[y], RolesOf(roomRoles, roomId))
                              ELSE bedrock[y]]
            /\ pipelines' = PipelinesSet(pipelines, x)
            /\ handlers' = [handlers EXCEPT ![x].join = "done"]
            /\ last' = [op |-> "joined", socket |-> Solo, started |-> TRUE,
                        failed |-> IF session[x].isActive THEN "none" ELSE "transcription"]
            /\ UNCHANGED <<roomVars, flows, capCalls, added, regs, sessVars, connected,
                           ioRooms, roomRoles, delivered>>

\* Solo disconnects (index.js 312-344): the Pipeline the map holds for it,
\* if any, is stopped and deleted from the map.
RejoinDisconnect ==
    LET held == {y \in pipelines : pipe[y].userId = Solo}
    IN  /\ Solo \in connected
        /\ handlers[Solo].disc = "none"
        /\ connected' = connected \ {Solo}
        /\ ioRooms' = {e \in ioRooms : e[2] # Solo}
        /\ pipe' = [y \in DOMAIN pipe |->
                       IF y \in held THEN PipelineStop(pipe[y]) ELSE pipe[y]]
        /\ bedrock' = [y \in DOMAIN bedrock |->
                          IF y \in held THEN BedrockAfterStop(pipe[y], bedrock[y])
                          ELSE bedrock[y]]
        /\ pipelines' = pipelines \ held
        /\ LeaveRooms(Solo, ioRooms')
        /\ handlers' = [handlers EXCEPT ![Solo].disc = "done"]
        /\ last' = [op |-> "disconnect", socket |-> Solo]
        /\ UNCHANGED <<flows, capCalls, added, regs, sessVars>>

NextRejoin ==
    RejoinFirst \/ RejoinRoom \/ RejoinHandshake \/ RejoinFinish \/ RejoinDisconnect

SpecRejoin == CallInit /\ [][NextRejoin]_vars

\* C37: a Pipeline whose join-room has completed and which has not been
\* stopped is the one the map holds for its socket, also when the socket
\* has sent join-room twice.
C37_LivePipelineIsRegistered ==
    \A x \in {Solo, Second} :
        (handlers[x].join = "done" /\ pipe[x].isActive) => x \in pipelines

----------------------------------------------------------------------------
(* Role entries and members, under SpecJoin.                               *)

\* The sockets with an entry in the roles of a room
RoleHolders(rr, roomId) ==
    {RolesOf(rr, roomId)[i][1] : i \in 1..Len(RolesOf(rr, roomId))}

----------------------------------------------------------------------------
(* The order of a pipeline's outputs, under SpecLife.                      *)

\* The place of the utterance `id' among the calls of the transcript sink
SinkPos(p, id) ==
    CHOOSE i \in 1..Len(sinkLog) : sinkLog[i][1] = p /\ sinkLog[i][2].id = id

\* C39: the entries of a pipeline's conversation history, each appended
\* when the output of its utterance is emitted, are in the order in which
\* the transcription session finalized the utterances.
C39_OutputsInUtteranceOrder ==
    bedrock[Solo] # NullObj =>
        LET h == bedrock[Solo].conversationHistory
        IN  \A i, j \in 1..Len(h) :
               i < j => SinkPos(Solo, h[i].originalText.id)
                           < SinkPos(Solo, h[j].originalText.id)

----------------------------------------------------------------------------
(* A session that stops on its own, under SpecStop.                        *)

\* C40: a pipeline marked active has a live transcription session, and the
\* pipeline of a session that was started and has stopped (inactivity,
\* maximum duration, fatal failure, retries exhausted) is neither marked
\* active nor in the Dispatcher's map.
C40_ActivePipelineHasLiveSession ==
    \A p \in SocketIds :
        (pipe[p] # NullObj /\ session[p] # NullObj /\ session[p].pc # "threw")
            => /\ pipe[p].isActive => session[p].isActive
               /\ ~session[p].isActive => (~pipe[p].isActive /\ p \notin pipelines)

====
